---- MODULE Spec2Model ----
(***************************************************************************)
(* Commit-graph analysis of three-way-merge-finder: the descendant query   *)
(* (get_descendants, find_bug_fixing_commits), the merge detector          *)
(* (find_merges) and the summary heuristic (potential_bug_fix_summary).    *)
(* The git repository is the environment: a DAG of commits with ordered    *)
(* parents, a head, one timestamp per commit.                              *)
(***************************************************************************)
EXTENDS Integers, Sequences, FiniteSets, TLC

VARIABLES
    parents,      \* repository: parents[c] is the ordered parent list of commit c
    head,         \* repository: the commit HEAD points to
    time,         \* repository: time[c] is the commit time of c in seconds
    call,         \* the entry point invoked and its argument
    pc,           \* position of the running call
    ancestor,     \* get_descendants: the Oid argument
    descendants,  \* the Vec<Oid> of get_descendants, then of find_bug_fixing_commits
    walked,       \* the commits the revwalk has yielded so far
    got,          \* what get_descendants returned to find_bug_fixing_commits
    lookups,      \* find_bug_fixing_commits: what find_commit gave for each descendant
    merges,       \* find_merges: the Vec<ThreeWayMerge> collected so far
    log,          \* lines written to stderr
    fault,        \* the collaborator failure that happened, "none" if none
    result,       \* what the call returned
    tree,         \* repository: tree[c] is the content of commit c, once it was read
    o_to_a,       \* print_bug_fix_csv: the files changed from O to A
    o_to_b,       \* print_bug_fix_csv: the files changed from O to B
    kept,         \* the candidates, or merges, that passed the filters so far
    cursor,       \* how many elements the running loop has consumed
    stdout,       \* lines written to stdout, folders written to disk
    diff,         \* changed_same_line: the lines diff.foreach hands to the callback
    changed_same_line,  \* changed_same_line: the flag the callback sets
    caller,       \* the publishing function that made the call, with its arguments
    checked,      \* what the filter closures returned for each element examined
    filesystem,   \* file system: the kind of every path below the folder
    worklist,     \* RelativeFiles: the directory entries still to visit
    yielded       \* the paths next() has returned so far

\* The state of the publishing functions and of changed_same_line.
publishVars == <<tree, o_to_a, o_to_b, kept, cursor, stdout, diff, changed_same_line,
                 caller, checked>>

\* The file system and the iterator over it.
filesVars == <<filesystem, worklist, yielded>>

vars == <<parents, head, time, call, pc, ancestor, descendants, walked, got,
          lookups, merges, log, fault, result, publishVars, filesVars>>

(***************************************************************************)
(* Bounds of the model.                                                    *)
(***************************************************************************)
MaxCommits == 4
MaxParents == 3
MaxTime == 2

Commits == 1..MaxCommits
\* A well-formed object id that names no commit of the repository.
MissingOid == MaxCommits + 1
Oids == Commits \cup {MissingOid}

Range(s) == {s[i] : i \in 1..Len(s)}

\* Sequences without repetition over S, of length at most n.
SeqsNoDup(S, n) ==
    UNION {{s \in [1..k -> S] : \A i, j \in 1..k : i # j => s[i] # s[j]} : k \in 0..n}

\* Every history over the commits 1..n: a commit's parents are older commits.
RECURSIVE Histories(_)
Histories(n) ==
    IF n = 0 THEN {<<>>}
    ELSE {Append(h, ps) : h \in Histories(n - 1),
                          ps \in SeqsNoDup(1..(n - 1), MaxParents)}

(***************************************************************************)
(* The repository's graph, as git defines it (not as the program computes  *)
(* it).                                                                    *)
(***************************************************************************)
ParentSet(c) == Range(parents[c])

\* Commits reachable from c by following k or fewer parent edges.
RECURSIVE AncestorsWithin(_, _)
AncestorsWithin(S, k) ==
    LET next == S \cup UNION {ParentSet(c) : c \in S} IN
      IF k = 0 \/ next = S THEN S ELSE AncestorsWithin(next, k - 1)

\* c and all its ancestors.
AncestorsOrSelf(c) == AncestorsWithin({c}, MaxCommits)
\* The commits reached by one or more parent edges from c.
ProperAncestors(c) == AncestorsWithin(ParentSet(c), MaxCommits)
\* The commits a revwalk started at head visits.
Reachable == AncestorsOrSelf(head)
\* The descendants of a reachable from head: the specification of get_descendants.
TrueDescendants(a) == {c \in Reachable : a \in ProperAncestors(c)}

Ok(v) == [status |-> "Ok", value |-> v]
Err(e) == [status |-> "Err", value |-> e]
Panic(e) == [status |-> "Panic", value |-> e]
NoResult == [status |-> "None", value |-> <<>>]

(***************************************************************************)
(* git2::Oid::from_str: a hex string of 1..OidHexLen digits is an Oid;     *)
(* the empty string, a longer string and a non-hex character are errors.   *)
(* Object ids are one hex digit long in this model.                        *)
(***************************************************************************)
OidHexLen == 1
HexDigits == <<"1", "2", "3", "4", "5", "6", "7", "8", "9">>
HexValue(ch) == CHOOSE v \in 1..Len(HexDigits) : HexDigits[v] = ch
IsHex(ch) == \E v \in 1..Len(HexDigits) : HexDigits[v] = ch
OidStr(o) == <<HexDigits[o]>>
\* A parser that turns a malformed string into an id that names nothing.
OidFromStrLenient(s) ==
    IF Len(s) = 0 \/ Len(s) > OidHexLen \/ \E i \in 1..Len(s) : ~IsHex(s[i])
    THEN Ok(MissingOid)
    ELSE Ok(HexValue(s[1]))

OidFromStr(s) ==
    IF Len(s) = 0 \/ Len(s) > OidHexLen \/ \E i \in 1..Len(s) : ~IsHex(s[i])
    THEN Err("invalid oid")
    ELSE Ok(HexValue(s[1]))

\* The ancestor strings a caller may pass: every id, and malformed ones.
AncestorStrs ==
    {OidStr(o) : o \in Oids} \cup {<<>>, <<"g">>, <<"1", "2">>}

(***************************************************************************)
(* The revwalk. Sort::TOPOLOGICAL yields no parent before all its children *)
(* were yielded; with Sort::REVERSE that order is reversed, so no commit   *)
(* is yielded before all its parents were. Any such order may come out.    *)
(***************************************************************************)
\* A walk that yields a commit again after it was yielded.
RevwalkNextRepeating == {c \in Reachable : ParentSet(c) \subseteq walked}

\* A walk without sorting: any commit not yet yielded.
RevwalkNextUnsorted == Reachable \ walked

RevwalkNextReverse ==
    {c \in Reachable \ walked : ParentSet(c) \subseteq walked}

RevwalkNextTopological ==
    {c \in Reachable \ walked :
        \A d \in Reachable : c \in ParentSet(d) => d \in walked}

(***************************************************************************)
(* get_descendants                                                         *)
(***************************************************************************)
\* (0..commit.parent_count()).map(parent_id).any(|p| descendants.contains(&p))
ParentInDescendantsFirstOnly(c, desc) ==
    Len(parents[c]) > 0 /\ parents[c][1] \in Range(desc)

ParentInDescendantsOrSelf(c, desc) ==
    \/ c \in Range(desc)
    \/ \E ctr \in 1..Len(parents[c]) : parents[c][ctr] \in Range(desc)

ParentInDescendants(c, desc) ==
    \E ctr \in 1..Len(parents[c]) : parents[c][ctr] \in Range(desc)

\* descendants.remove(0)
RemoveLast(v) == SubSeq(v, 1, Len(v) - 1)

RemoveFirst(v) == SubSeq(v, 2, Len(v))

(***************************************************************************)
(* potential_bug_fix_summary. A summary is a sequence of characters. Each  *)
(* matcher is a case-insensitive literal, Regex::new("(?i)word"), and      *)
(* is_match looks for it anywhere in the text.                             *)
(***************************************************************************)
LowerCase == <<"a", "b", "c", "d", "e", "f", "g", "h", "i", "j", "k", "l", "m",
               "n", "o", "p", "q", "r", "s", "t", "u", "v", "w", "x", "y", "z">>
UpperCase == <<"A", "B", "C", "D", "E", "F", "G", "H", "I", "J", "K", "L", "M",
               "N", "O", "P", "Q", "R", "S", "T", "U", "V", "W", "X", "Y", "Z">>

\* (?i): a letter matches in either case.
FoldCase(ch) ==
    IF \E i \in 1..Len(UpperCase) : UpperCase[i] = ch
    THEN LowerCase[CHOOSE i \in 1..Len(UpperCase) : UpperCase[i] = ch]
    ELSE ch

\* Regex::is_match of "(?i)matcher": an occurrence of the literal at any place.
IsMatch(matcher, text) ==
    \E start \in 1..(Len(text) - Len(matcher) + 1) :
        \A j \in 1..Len(matcher) :
            FoldCase(text[start + j - 1]) = FoldCase(matcher[j])

RAY_MATCHERS == <<
    <<"e", "r", "r", "o", "r">>,
    <<"b", "u", "g">>,
    <<"f", "i", "x">>,
    <<"i", "s", "s", "u", "e">>,
    <<"m", "i", "s", "t", "a", "k", "e">>,
    <<"i", "n", "c", "o", "r", "r", "e", "c", "t">>,
    <<"f", "a", "u", "l", "t">>,
    <<"d", "e", "f", "e", "c", "t">>,
    <<"f", "l", "a", "w">>,
    <<"t", "y", "p", "e">>
>>

\* RAY_MATCHERS.iter().any(|matcher| matcher.is_match(summary))
potential_bug_fix_summary(summary) ==
    \E k \in 1..Len(RAY_MATCHERS) : IsMatch(RAY_MATCHERS[k], summary)

(***************************************************************************)
(* find_bug_fixing_commits                                                 *)
(***************************************************************************)
\* A removal that takes the element before the index.
VecRemoveOffByOne(v, idx) ==
    LET k == IF idx > 1 THEN idx - 1 ELSE 1
    IN  SubSeq(v, 1, k - 1) \o SubSeq(v, k + 1, Len(v))

\* Vec::remove(idx), idx counted from 1 here.
VecRemove(v, idx) == SubSeq(v, 1, idx - 1) \o SubSeq(v, idx + 1, Len(v))

Reverse(s) == [i \in 1..Len(s) |-> s[Len(s) + 1 - i]]

\* A closure that lets a commit stay when it was not found.
KeepsUnfound(looked) ==
    IF looked.status = "Ok" THEN ~potential_bug_fix_summary(looked.value) ELSE FALSE

\* The indices of the descendants that go: the commit was not found, or its
\* summary is no bug-fix summary. The closure of .filter(..) at lines 22-34.
IsNotAFix(looked) ==
    IF looked.status = "Ok" THEN ~potential_bug_fix_summary(looked.value) ELSE TRUE

RECURSIVE IndicesWhere(_, _)
IndicesWhere(looked, n) ==
    IF n = 0 THEN <<>>
    ELSE IF IsNotAFix(looked[n])
         THEN Append(IndicesWhere(looked, n - 1), n)
         ELSE IndicesWhere(looked, n - 1)

\* .enumerate().filter(..).map(|(ctr, _)| ctr).rev().collect()
NotAFix(looked) == Reverse(IndicesWhere(looked, Len(looked)))

\* for idx in not_a_fix { descendants.remove(idx); }
RECURSIVE RemoveEach(_, _)
RemoveEach(v, idxs) ==
    IF idxs = <<>> THEN v
    ELSE RemoveEach(VecRemove(v, Head(idxs)), Tail(idxs))

\* The summaries the commits of the modelled repository carry.
RepoSummaries == {<<"F", "i", "x", " ", "i", "t">>, <<"a", "d", "d">>}

\* repo.find_commit(descendant): the commit with its summary, or an error.
FindCommitResults == {Ok(s) : s \in RepoSummaries} \cup {Err("git2")}

\* let ancestor_oid = git2::Oid::from_str(ancestor_str)?;
ParseAncestor ==
    /\ pc = "start"
    /\ call.fn = "find_bug_fixing_commits"
    /\ LET parsed == OidFromStr(call.arg) IN
         IF parsed.status = "Ok"
         THEN /\ ancestor' = parsed.value
              /\ pc' = "get_descendants"
              /\ UNCHANGED result
         ELSE /\ result' = parsed
              /\ pc' = "done"
              /\ UNCHANGED ancestor
    /\ UNCHANGED <<parents, head, time, call, descendants, walked, got, lookups,
                   merges, log, fault>>
    /\ UNCHANGED publishVars
    /\ UNCHANGED filesVars

\* git_utils::get_descendants called with an Oid.
CallGetDescendants ==
    /\ pc = "start"
    /\ call.fn = "get_descendants"
    /\ ancestor' = call.arg
    /\ pc' = "get_descendants"
    /\ UNCHANGED <<parents, head, time, call, descendants, walked, got, lookups,
                   merges, log, fault, result>>
    /\ UNCHANGED publishVars
    /\ UNCHANGED filesVars

\* get_descendants: descendants.push(ancestor); repo.revwalk()?; push_head()?;
\* set_sorting(..)?  An error of one of the three returns through `?`, in
\* find_bug_fixing_commits too.
BeginDescendants ==
    /\ pc = "get_descendants"
    /\ \/ /\ descendants' = <<ancestor>>
          /\ pc' = "walk"
          /\ UNCHANGED <<fault, got, result>>
       \/ /\ fault' = "revwalk"
          /\ descendants' = <<>>
          /\ got' = Err("git2")
          /\ result' = Err("git2")
          /\ pc' = "done"
    /\ UNCHANGED <<parents, head, time, call, ancestor, walked, lookups, merges, log>>
    /\ UNCHANGED publishVars
    /\ UNCHANGED filesVars

\* get_descendants: one iteration of `for oid in revwalk`.
WalkDescendants ==
    /\ pc = "walk"
    /\ RevwalkNextReverse # {}
    /\ \/ \E oid \in RevwalkNextReverse :
            /\ walked' = walked \cup {oid}
            /\ descendants' = IF ParentInDescendants(oid, descendants)
                              THEN Append(descendants, oid)
                              ELSE descendants
            /\ UNCHANGED <<pc, fault, got, result>>
       \/ \* oid.unwrap() or repo.find_commit(oid).unwrap() on a failure: the
          \* panic unwinds and drops the locals
          /\ fault' = "walk_item"
          /\ got' = Panic("unwrap")
          /\ result' = Panic("unwrap")
          /\ pc' = "done"
          /\ walked' = {}
          /\ descendants' = <<>>
    /\ UNCHANGED <<parents, head, time, call, ancestor, lookups, merges, log>>
    /\ UNCHANGED publishVars
    /\ UNCHANGED filesVars

\* get_descendants: the revwalk is exhausted; descendants.remove(0); Ok(descendants)
EndDescendants ==
    /\ pc = "walk"
    /\ RevwalkNextReverse = {}
    /\ descendants' = RemoveFirst(descendants)
    /\ got' = Ok(descendants')
    /\ IF call.fn = "get_descendants"
       THEN pc' = "done" /\ result' = got'
       ELSE pc' = "filter" /\ UNCHANGED result
    /\ UNCHANGED <<parents, head, time, call, ancestor, walked, lookups, merges,
                   log, fault>>
    /\ UNCHANGED publishVars
    /\ UNCHANGED filesVars

\* find_bug_fixing_commits, lines 19-47: collect not_a_fix, remove, Ok(descendants).
FilterSummaries ==
    /\ pc = "filter"
    /\ \E looked \in [1..Len(descendants) -> FindCommitResults] :
         /\ lookups' = looked
         /\ log' = log \o SelectSeq([i \in 1..Len(descendants) |->
                                        [line |-> "Failed to find commit for descendant",
                                         commit |-> descendants[i],
                                         failed |-> looked[i].status = "Err"]],
                                    LAMBDA l : l.failed)
         /\ descendants' = RemoveEach(descendants, NotAFix(looked))
         /\ result' = Ok(descendants')
    /\ pc' = "done"
    /\ UNCHANGED <<parents, head, time, call, ancestor, walked, got, merges, fault>>
    /\ UNCHANGED publishVars
    /\ UNCHANGED filesVars

\* The repositories tried. The program reads only commits it reaches from
\* head; the others are kept as parentless commits of an orphan branch.
InitRepo ==
    /\ parents \in Histories(MaxCommits)
    /\ head \in Commits
    /\ \A c \in Commits \ Reachable : parents[c] = <<>>

\* The paths of the files of the repository and the contents they can have.
Paths == {"A.java", "b.txt"}
Blobs == {"v1", "v2"}

\* A tree no call has read yet.
Unread == [p \in Paths |-> "unread"]

\* The call was made directly, not by a publishing function.
NoCaller == [fn |-> "none"]

\* The names a directory entry can have, and how deep below the folder the
\* paths of the file system go. A path is the sequence of its components.
Names == {"x", "y"}
MaxDepth == 2

RECURSIVE PathsOfDepth(_)
PathsOfDepth(n) ==
    IF n = 1 THEN {<<name>> : name \in Names}
    ELSE {Append(p, name) : p \in PathsOfDepth(n - 1), name \in Names}

FilePaths == UNION {PathsOfDepth(n) : n \in 1..MaxDepth}

\* A folder with nothing in it.
NoFiles == [p \in FilePaths |-> "absent"]

InitIdle ==
    /\ pc = "start"
    /\ ancestor = MissingOid
    /\ descendants = <<>>
    /\ walked = {}
    /\ got = NoResult
    /\ lookups = <<>>
    /\ merges = <<>>
    /\ log = <<>>
    /\ fault = "none"
    /\ result = NoResult
    /\ tree = [c \in Commits |-> Unread]
    /\ o_to_a = {}
    /\ o_to_b = {}
    /\ kept = <<>>
    /\ cursor = 0
    /\ stdout = <<>>
    /\ diff = <<>>
    /\ changed_same_line = FALSE
    /\ caller = NoCaller
    /\ checked = <<>>
    /\ filesystem = NoFiles
    /\ worklist = <<>>
    /\ yielded = <<>>

\* get_descendants on its own.
InitDesc ==
    /\ InitRepo
    /\ time = [c \in Commits |-> 0]
    /\ call \in [fn : {"get_descendants"}, arg : Oids]
    /\ InitIdle

NextDesc ==
    \/ CallGetDescendants
    \/ BeginDescendants
    \/ WalkDescendants
    \/ EndDescendants

SpecDesc == InitDesc /\ [][NextDesc]_vars

\* find_bug_fixing_commits, get_descendants within it.
InitFix ==
    /\ InitRepo
    /\ time = [c \in Commits |-> 0]
    /\ call \in [fn : {"find_bug_fixing_commits"}, arg : AncestorStrs]
    /\ InitIdle

NextFix ==
    \/ ParseAncestor
    \/ BeginDescendants
    \/ WalkDescendants
    \/ EndDescendants
    \/ FilterSummaries

SpecFix == InitFix /\ [][NextFix]_vars

(***************************************************************************)
(* Claims about the descendant query: C1 to C3 are checked under SpecDesc, *)
(* C4 under SpecFix.                                                       *)
(***************************************************************************)

\* C1: whenever get_descendants returns a sequence, its elements are exactly
\* the commits reachable from head that reach the ancestor by one or more
\* parent edges: none is missing and no other commit is included.
C1_DescendantsExact ==
    got.status = "Ok" => Range(got.value) = TrueDescendants(ancestor)

\* C1 happens: a merge commit is returned whose first parent is no descendant
\* and whose second parent is, while some visited commit is left out.
C1_Witness ==
    /\ got.status = "Ok"
    /\ \E c \in Range(got.value) :
         /\ Len(parents[c]) = 2
         /\ parents[c][1] \notin Range(got.value) \cup {ancestor}
         /\ parents[c][2] \in Range(got.value)
    /\ Reachable \ (Range(got.value) \cup {ancestor}) # {}

\* C2: the ancestor is never an element of the sequence get_descendants
\* returns.
C2_AncestorExcluded ==
    result.status = "Ok" => ancestor \notin Range(result.value)

\* C2 happens: the ancestor was visited by the walk and has descendants.
C2_Witness ==
    /\ got.status = "Ok"
    /\ ancestor \in walked
    /\ Len(got.value) >= 2

\* C3: when the ancestor has no descendant reachable from head and no git
\* operation failed, get_descendants returns Ok with the empty sequence.
C3_EmptyIsOk ==
    (/\ pc = "done"
     /\ fault = "none"
     /\ TrueDescendants(ancestor) = {})
    => result = Ok(<<>>)

\* C3 happens: the ancestor is a commit of an orphan branch, which head
\* cannot reach, and the walk visited other commits.
C3_Witness ==
    /\ result = Ok(<<>>)
    /\ ancestor \in Commits \ Reachable
    /\ Cardinality(walked) >= 2

\* C3 happens also for the head itself.
C3_WitnessHead ==
    /\ result = Ok(<<>>)
    /\ ancestor = head
    /\ Cardinality(walked) >= 2

\* C4: a well-formed ancestor identifier that names no commit makes the
\* descendant query fail with an error, in get_descendants and in
\* find_bug_fixing_commits, never succeed with an empty result (the walk
\* itself meeting no failure).
C4_NotFoundIsError ==
    (/\ pc = "done"
     /\ OidFromStr(call.arg).status = "Ok"
     /\ ancestor \notin Commits
     /\ fault = "none")
    => /\ got.status = "Err"
       /\ result.status = "Err"

(***************************************************************************)
(* find_merges                                                             *)
(***************************************************************************)
\* Option<i64>
None == <<>>
Some(v) == <<v>>

\* repo.merge_base(one, two): a best common ancestor, one that no other
\* common ancestor descends from; an error when there is none.
CommonAncestors(one, two) == AncestorsOrSelf(one) \cap AncestorsOrSelf(two)

MergeBases(one, two) ==
    {c \in CommonAncestors(one, two) :
        \A d \in CommonAncestors(one, two) : c \notin ProperAncestors(d)}

MergeBaseResults(one, two) ==
    IF MergeBases(one, two) = {}
    THEN {Err("no merge base found")}
    ELSE {Ok(c) : c \in MergeBases(one, two)}

\* .filter(|commit| commit.parent_count() == 2)
HasTwoParentsOrMore(commit) == Len(parents[commit]) >= 2

HasTwoParents(commit) == Len(parents[commit]) = 2

\* .filter(|commit| if let Some(before) = before { seconds < before } else { true })
IsBeforeOrAt(seconds, before) ==
    IF before # None THEN seconds <= before[1] ELSE TRUE

IsBefore(seconds, before) ==
    IF before # None THEN seconds < before[1] ELSE TRUE

\* The closure of .map(|commit| ..) at lines 24-50: Some(ThreeWayMerge) or None,
\* an Option being a sequence of at most one element.
ThreeWayMergeSwapped(commit, base) ==
    IF base.status = "Ok"
    THEN Some([o |-> base.value, a |-> parents[commit][2],
               b |-> parents[commit][1], m |-> commit])
    ELSE None

ThreeWayMergeOrFallback(commit, base) ==
    IF base.status = "Ok"
    THEN Some([o |-> base.value, a |-> parents[commit][1],
               b |-> parents[commit][2], m |-> commit])
    ELSE Some([o |-> parents[commit][1], a |-> parents[commit][1],
               b |-> parents[commit][2], m |-> commit])

ThreeWayMergeOf(commit, base) ==
    IF base.status = "Ok"
    THEN Some([o |-> base.value, a |-> parents[commit][1],
               b |-> parents[commit][2], m |-> commit])
    ELSE None

\* The eprintln! of the Err arm.
BaseErrorLog(commit, base) ==
    IF base.status = "Ok" THEN <<>>
    ELSE <<[line |-> "Could not find base for the two parent commits of",
            commit |-> commit, failed |-> TRUE]>>

\* find_merges is entered with the revwalk of create_revwalk (Sort::TOPOLOGICAL).
BeginMerges ==
    /\ pc = "start"
    /\ call.fn = "find_merges"
    /\ pc' = "merge_walk"
    /\ UNCHANGED <<parents, head, time, call, ancestor, descendants, walked, got,
                   lookups, merges, log, fault, result>>
    /\ UNCHANGED publishVars
    /\ UNCHANGED filesVars

\* One commit through the iterator chain: map, filter, filter, map, flatten.
\* commit.time() is read for a two-parent commit when a bound is given; the
\* repository's value is fixed at this first and only read.
WalkMerges ==
    /\ pc = "merge_walk"
    /\ RevwalkNextTopological # {}
    /\ \/ \E oid \in RevwalkNextTopological :
            /\ walked' = walked \cup {oid}
            /\ IF ~HasTwoParents(oid)
               THEN UNCHANGED <<time, merges, log>>
               ELSE \E seconds \in 1..MaxTime :
                      /\ time' = [time EXCEPT ![oid] = seconds]
                      /\ IF ~IsBefore(seconds, call.arg)
                         THEN UNCHANGED <<merges, log>>
                         ELSE \E base \in MergeBaseResults(parents[oid][1],
                                                          parents[oid][2]) :
                                /\ merges' = merges \o ThreeWayMergeOf(oid, base)
                                /\ log' = log \o BaseErrorLog(oid, base)
            /\ UNCHANGED <<pc, fault, result>>
       \/ \* oid.expect("Failed to get Oid"), find_commit(..).expect(..): the
          \* panic unwinds and drops the iterator chain
          /\ fault' = "walk_item"
          /\ result' = Panic("expect")
          /\ pc' = "done"
          /\ walked' = {}
          /\ merges' = <<>>
          /\ UNCHANGED <<time, log>>
    /\ UNCHANGED <<parents, head, call, ancestor, descendants, got, lookups>>
    /\ UNCHANGED publishVars
    /\ UNCHANGED filesVars

\* .collect()
EndMerges ==
    /\ pc = "merge_walk"
    /\ RevwalkNextTopological = {}
    /\ result' = Ok(merges)
    /\ pc' = "done"
    /\ UNCHANGED <<parents, head, time, call, ancestor, descendants, walked, got,
                   lookups, merges, log, fault>>
    /\ UNCHANGED publishVars
    /\ UNCHANGED filesVars

InitMerges ==
    /\ InitRepo
    /\ time = [c \in Commits |-> 0]
    /\ call \in [fn : {"find_merges"},
                 arg : {None} \cup {Some(t) : t \in 1..MaxTime}]
    /\ InitIdle

NextMerges ==
    \/ BeginMerges
    \/ WalkMerges
    \/ EndMerges

SpecMerges == InitMerges /\ [][NextMerges]_vars

(***************************************************************************)
(* Claims about find_merges, checked under SpecMerges.                     *)
(***************************************************************************)
\* The merge commits of a list of quadruples, in order.
MergeCommits(list) == [i \in 1..Len(list) |-> list[i].m]

\* The `before` bound lets the commit through, by its timestamp.
PassesBound(c) == call.arg = None \/ time[c] < call.arg[1]

\* The two parents of c share an ancestor.
ParentsRelated(c) == CommonAncestors(parents[c][1], parents[c][2]) # {}

\* C5: every quadruple (O,A,B,M) collected has an M with exactly two parents,
\* A its first and B its second parent, and O a lowest common ancestor of A
\* and B; the returned list is the collected one.
C5_QuadrupleShape ==
    /\ \A i \in 1..Len(merges) :
         LET q == merges[i] IN
           /\ Len(parents[q.m]) = 2
           /\ q.a = parents[q.m][1]
           /\ q.b = parents[q.m][2]
           /\ q.o \in CommonAncestors(q.a, q.b)
           /\ \A d \in CommonAncestors(q.a, q.b) : q.o \notin ProperAncestors(d)
    /\ result.status = "Ok" => result.value = merges

\* C5 happens: a returned quadruple whose O differs from both sides and whose
\* first parent is the younger commit.
C5_Witness ==
    /\ result.status = "Ok"
    /\ \E i \in 1..Len(result.value) :
         LET q == result.value[i] IN q.o \notin {q.a, q.b} /\ q.a > q.b

\* C6: only commits with exactly two parents appear as M, and every traversed
\* two-parent commit that passes the bound and whose parents share an
\* ancestor appears as M in exactly one quadruple.
C6_ExactlyTwoParents ==
    /\ \A i \in 1..Len(merges) : Len(parents[merges[i].m]) = 2
    /\ \A c \in walked :
         (Len(parents[c]) = 2 /\ PassesBound(c) /\ ParentsRelated(c))
         => Cardinality({i \in 1..Len(merges) : merges[i].m = c}) = 1
    /\ result.status = "Ok" => walked = Reachable /\ result.value = merges

\* C6 happens: the scan met a commit with three parents, one with a single
\* parent and a two-parent commit, and returned a quadruple.
C6_Witness ==
    /\ result.status = "Ok"
    /\ result.value # <<>>
    /\ \E c \in walked : Len(parents[c]) = 3
    /\ \E c \in walked : Len(parents[c]) = 1

\* C7: with a bound T every collected merge commit has a timestamp strictly
\* less than T; without a bound every traversed two-parent commit whose
\* parents share an ancestor is collected, whatever its timestamp.
C7_BeforeStrict ==
    /\ call.arg # None =>
         \A i \in 1..Len(merges) : time[merges[i].m] < call.arg[1]
    /\ call.arg = None =>
         \A c \in walked :
            (Len(parents[c]) = 2 /\ ParentsRelated(c))
            => c \in Range(MergeCommits(merges))

\* C7 happens: with a bound T, a related two-parent commit stamped exactly T
\* was left out and another merge was returned.
C7_Witness ==
    /\ call.arg # None
    /\ result.status = "Ok"
    /\ result.value # <<>>
    /\ \E c \in walked :
         /\ Len(parents[c]) = 2
         /\ ParentsRelated(c)
         /\ time[c] = call.arg[1]
         /\ c \notin Range(MergeCommits(result.value))

\* C7 happens also without a bound: merges of different timestamps are returned.
C7_WitnessNoBound ==
    /\ call.arg = None
    /\ result.status = "Ok"
    /\ \E i, j \in 1..Len(result.value) :
         time[result.value[i].m] < time[result.value[j].m]

\* The traversed two-parent commits within the bound whose parents share no
\* ancestor: merge_base failed for them.
BaseFailed ==
    {c \in walked :
        Len(parents[c]) = 2 /\ PassesBound(c) /\ ~ParentsRelated(c)}

\* C8: once merge_base has failed for some merge commit (and nothing else
\* failed), the scan has not aborted, that commit is in no quadruple, one
\* line was logged for it, and the quadruples are those of all the other
\* qualifying merge commits, in traversal order.
C8_BaseFailureDropsOne ==
    (BaseFailed # {} /\ fault = "none")
    => /\ result.status # "Panic"
       /\ pc = "done" => result = Ok(merges)
       /\ Range(MergeCommits(merges)) =
            {c \in walked : /\ Len(parents[c]) = 2
                            /\ PassesBound(c)
                            /\ c \notin BaseFailed}
       /\ \A i, j \in 1..Len(merges) :
            i < j => /\ merges[i].m # merges[j].m
                     /\ merges[i].m \notin ProperAncestors(merges[j].m)
       /\ \A c \in BaseFailed :
            Cardinality({i \in 1..Len(log) : log[i].commit = c}) = 1

\* C8 happens: merge_base failed for one merge commit and the scan returned
\* the quadruple of another.
C8_Witness ==
    /\ BaseFailed # {}
    /\ result.status = "Ok"
    /\ result.value # <<>>

(***************************************************************************)
(* The summary heuristic on its own: potential_bug_fix_summary applied to  *)
(* one summary.                                                            *)
(***************************************************************************)
ToLower(text) == [i \in 1..Len(text) |-> FoldCase(text[i])]

ToUpper(text) ==
    [i \in 1..Len(text) |->
        IF \E k \in 1..Len(LowerCase) : LowerCase[k] = text[i]
        THEN UpperCase[CHOOSE k \in 1..Len(LowerCase) : LowerCase[k] = text[i]]
        ELSE text[i]]

Capitalised(text) ==
    IF text = <<>> THEN text ELSE ToUpper(SubSeq(text, 1, 1)) \o Tail(text)

\* The ten keywords of the reference list.
ReferenceKeywords == {
    <<"e", "r", "r", "o", "r">>,
    <<"b", "u", "g">>,
    <<"f", "i", "x">>,
    <<"i", "s", "s", "u", "e">>,
    <<"m", "i", "s", "t", "a", "k", "e">>,
    <<"i", "n", "c", "o", "r", "r", "e", "c", "t">>,
    <<"f", "a", "u", "l", "t">>,
    <<"d", "e", "f", "e", "c", "t">>,
    <<"f", "l", "a", "w">>,
    <<"c", "o", "n", "f", "l", "i", "c", "t">>
}

\* The words the summaries are built around: every keyword of either list,
\* and words of neither.
SummaryWords ==
    ReferenceKeywords \cup Range(RAY_MATCHERS)
        \cup {<<"p", "a", "t", "c", "h">>, <<"m", "e", "r", "g", "e">>, <<>>}

SummaryPrefixes == {<<>>, <<"p", "r", "e">>, <<"A", "d", "d", " ">>}
SummarySuffixes == {<<>>, <<"e", "s">>, <<" ", "i", "n", " ", "U", "I">>}

\* The summaries tried: a word in lower, upper or capitalised case, alone,
\* inside a longer word, or among other words.
SummaryInputs ==
    {pre \o cased \o suf :
        pre \in SummaryPrefixes,
        cased \in UNION {{word, ToUpper(word), Capitalised(word)} : word \in SummaryWords},
        suf \in SummarySuffixes}

ClassifySummary ==
    /\ pc = "start"
    /\ call.fn = "potential_bug_fix_summary"
    /\ result' = Ok(potential_bug_fix_summary(call.arg))
    /\ pc' = "done"
    /\ UNCHANGED <<parents, head, time, call, ancestor, descendants, walked, got,
                   lookups, merges, log, fault>>
    /\ UNCHANGED publishVars
    /\ UNCHANGED filesVars

InitSummary ==
    /\ parents = [c \in Commits |-> <<>>]
    /\ head = MaxCommits
    /\ time = [c \in Commits |-> 0]
    /\ call \in [fn : {"potential_bug_fix_summary"}, arg : SummaryInputs]
    /\ InitIdle

NextSummary == ClassifySummary

SpecSummary == InitSummary /\ [][NextSummary]_vars

(***************************************************************************)
(* Claims about the summary heuristic, checked under SpecSummary.          *)
(***************************************************************************)
\* The text contains the word, in any letter case and at any position.
ContainsWord(word, text) ==
    \E start \in 1..(Len(text) - Len(word) + 1) :
        SubSeq(ToLower(text), start, start + Len(word) - 1) = word

\* C9: a summary that contains one of the ten reference keywords (error,
\* bug, fix, issue, mistake, incorrect, fault, defect, flaw, conflict), in
\* any case and at any position, is classified as a bug-fix candidate.
C9_ReferenceKeywordIsCandidate ==
    (/\ pc = "done"
     /\ \E word \in ReferenceKeywords : ContainsWord(word, call.arg))
    => result = Ok(TRUE)

\* C10: a summary that contains 'type' and none of the ten reference
\* keywords is not classified as a bug-fix candidate.
C10_TypeIsNoKeyword ==
    (/\ pc = "done"
     /\ ContainsWord(<<"t", "y", "p", "e">>, call.arg)
     /\ \A word \in ReferenceKeywords : ~ContainsWord(word, call.arg))
    => result = Ok(FALSE)

(***************************************************************************)
(* The message filter of find_bug_fixing_commits on its own: lines 19-43   *)
(* applied to a candidate vector, then to what it left.                    *)
(***************************************************************************)
\* What the filter does to a vector, found[c] being what repo.find_commit
\* gives for commit c.
MessageFilter(candidates, found) ==
    RemoveEach(candidates,
               NotAFix([i \in 1..Len(candidates) |-> found[candidates[i]]]))

\* The candidate vectors tried: commits without repetition.
CandidateVectors == SeqsNoDup(Commits, MaxCommits)

FilterOnce ==
    /\ pc = "start"
    /\ call.fn = "message_filter"
    /\ descendants' = MessageFilter(call.arg, lookups)
    /\ result' = Ok(descendants')
    /\ pc' = "filtered"
    /\ UNCHANGED <<parents, head, time, call, ancestor, walked, got, lookups,
                   merges, log, fault, publishVars>>
    /\ UNCHANGED filesVars

FilterAgain ==
    /\ pc = "filtered"
    /\ descendants' = MessageFilter(descendants, lookups)
    /\ pc' = "done"
    /\ UNCHANGED <<parents, head, time, call, ancestor, walked, got, lookups,
                   merges, log, fault, result, publishVars>>
    /\ UNCHANGED filesVars

InitMessage ==
    /\ parents = [c \in Commits |-> <<>>]
    /\ head = MaxCommits
    /\ time = [c \in Commits |-> 0]
    /\ call \in [fn : {"message_filter"}, arg : CandidateVectors]
    /\ pc = "start"
    /\ ancestor = MissingOid
    /\ descendants = <<>>
    /\ walked = {}
    /\ got = NoResult
    /\ lookups \in [Commits -> FindCommitResults]
    /\ merges = <<>>
    /\ log = <<>>
    /\ fault = "none"
    /\ result = NoResult
    /\ tree = [c \in Commits |-> Unread]
    /\ o_to_a = {}
    /\ o_to_b = {}
    /\ kept = <<>>
    /\ cursor = 0
    /\ stdout = <<>>
    /\ diff = <<>>
    /\ changed_same_line = FALSE
    /\ caller = NoCaller
    /\ checked = <<>>
    /\ filesystem = NoFiles
    /\ worklist = <<>>
    /\ yielded = <<>>

NextMessage ==
    \/ FilterOnce
    \/ FilterAgain

SpecMessage == InitMessage /\ [][NextMessage]_vars

\* C11: the message filter applied to its own output removes nothing: the
\* second output is the first one, same elements in the same order.
C11_MessageFilterIdempotent ==
    pc = "done" => descendants = result.value

\* C11 happens: the first pass removed a commit that was not found and one
\* whose summary has no keyword, and kept two; the second pass ran.
C11_Witness ==
    /\ pc = "done"
    /\ Len(result.value) >= 2
    /\ \E i, j \in 1..Len(call.arg) :
         /\ lookups[call.arg[i]].status = "Err"
         /\ lookups[call.arg[j]].status = "Ok"
         /\ call.arg[j] \notin Range(result.value)

(***************************************************************************)
(* within_n_generations (git_utils.rs and find_bug_fix.rs carry the same   *)
(* body).                                                                  *)
(***************************************************************************)
\* for child in children { for ancestor in child.parents() { .. push } }
RECURSIVE ParentsOfAll(_)
ParentsOfAll(children) ==
    IF children = <<>> THEN <<>>
    ELSE parents[Head(children)] \o ParentsOfAll(Tail(children))

\* A walk that also accepts the commits it starts from.
RECURSIVE GenerationsInclusive(_, _, _)
GenerationsInclusive(root, children, n) ==
    IF root \in Range(children) THEN TRUE
    ELSE IF n = 0 THEN FALSE
    ELSE GenerationsInclusive(root, ParentsOfAll(children), n - 1)

\* A walk that follows only the first parent of each commit.
RECURSIVE GenerationsFirstParent(_, _, _)
GenerationsFirstParent(root, children, n) ==
    IF n = 0 THEN FALSE
    ELSE LET firsts == SelectSeq(children, LAMBDA c : parents[c] # <<>>)
             ancestors == [i \in 1..Len(firsts) |-> parents[firsts[i]][1]]
         IN  IF root \in Range(ancestors) THEN TRUE
             ELSE GenerationsFirstParent(root, ancestors, n - 1)

\* for _ in 0..n { .. if root == &ancestor.id() { return true; } ..
\* children = ancestors; } false
RECURSIVE Generations(_, _, _)
Generations(root, children, n) ==
    IF n = 0 THEN FALSE
    ELSE LET ancestors == ParentsOfAll(children)
         IN  IF root \in Range(ancestors) THEN TRUE
             ELSE Generations(root, ancestors, n - 1)

\* repo.find_commit(*child).unwrap() panics on an id that names no commit.
within_n_generations(root, child, n) ==
    IF child \in Commits
    THEN Ok(Generations(root, <<child>>, n))
    ELSE Panic("unwrap")

\* The histories whose commits have at most two parents.
HistoriesOfMerges ==
    {h \in Histories(MaxCommits) : \A c \in Commits : Len(h[c]) <= 2}

CallWithinNGenerations ==
    /\ pc = "start"
    /\ call.fn = "within_n_generations"
    /\ result' = within_n_generations(call.arg.root, call.arg.child, call.arg.n)
    /\ fault' = IF result'.status = "Panic" THEN "candidate_lookup" ELSE fault
    /\ pc' = "done"
    /\ UNCHANGED <<parents, head, time, call, ancestor, descendants, walked, got,
                   lookups, merges, log, publishVars>>
    /\ UNCHANGED filesVars

InitGenerations ==
    /\ parents \in HistoriesOfMerges
    /\ head = MaxCommits
    /\ time = [c \in Commits |-> 0]
    /\ call \in [fn : {"within_n_generations"},
                 arg : [root : Oids, child : Oids, n : 0..MaxCommits]]
    /\ InitIdle

NextGenerations == CallWithinNGenerations

SpecGenerations == InitGenerations /\ [][NextGenerations]_vars

\* The commits reached from the set S by exactly k parent edges.
RECURSIVE HopsFrom(_, _)
HopsFrom(S, k) ==
    IF k = 0 THEN S ELSE HopsFrom(UNION {ParentSet(c) : c \in S}, k - 1)

\* C12: within_n_generations(root, child, n) is true exactly when root is
\* reached from child by following between 1 and n parent edges; so it is
\* false for n = 0 and for child = root, and true for a direct child of root
\* with n = 1.
C12_WithinNGenerations ==
    (pc = "done" /\ call.arg.child \in Commits)
    => LET root == call.arg.root
           child == call.arg.child
           n == call.arg.n
       IN  /\ result.status = "Ok"
           /\ result.value = (\E k \in 1..n : root \in HopsFrom({child}, k))
           /\ n = 0 => result.value = FALSE
           /\ child = root => result.value = FALSE
           /\ (n = 1 /\ root \in ParentSet(child)) => result.value = TRUE

\* C12 happens: root is found at the second generation, through the second
\* parent of the child only, with n = 2.
C12_Witness ==
    /\ pc = "done"
    /\ result = Ok(TRUE)
    /\ call.arg.n = 2
    /\ Len(parents[call.arg.child]) = 2
    /\ call.arg.root \notin ParentSet(call.arg.child)
    /\ call.arg.root \notin ParentSet(parents[call.arg.child][1])
    /\ call.arg.root \in ParentSet(parents[call.arg.child][2])

(***************************************************************************)
(* Trees and diffs (git_utils.rs). A tree gives each path a blob; the tree  *)
(* of a commit is fixed when a diff first reads it.                        *)
(***************************************************************************)
TreeValues == [Paths -> Blobs]

\* commit.tree(): the tree already read for c, or any tree at the first read.
TreeOptions(c) == IF tree[c] = Unread THEN TreeValues ELSE {tree[c]}

\* The same for the first tree of a diff. Blobs are only compared with each
\* other, so the blobs of the first tree read in a run are all called "v1".
FirstTreeOptions(c) ==
    IF \A d \in Commits : tree[d] = Unread
    THEN {[p \in Paths |-> "v1"]}
    ELSE TreeOptions(c)

\* changed_filenames: the old and new path of every delta of the diff of the
\* two trees. No rename detection is asked for, so both are the path whose
\* blob differs.
ChangedFilenames(old_tree, new_tree) ==
    {p \in Paths : old_tree[p] # new_tree[p]}

(***************************************************************************)
(* changed_same_line                                                       *)
(***************************************************************************)
\* What blame_between and get_line give for a line: blame_file failed, no
\* hunk for the line, a hunk at the boundary, a hunk of a commit after it.
Blames == {"Err", "NoHunk", "Boundary", "Changed"}

\* The origins the callback returns early for (lines 106-113).
SkippedOrigins == {"Context", "Binary", "AddEOFNL", "DeleteEOFNL", "ContextEOFNL"}

\* The lines diff.foreach hands to the line callback. A context or deleted
\* line has a line number in the old file, an added line has none; its blame
\* is what the blame of its file gives at the place of the line.
DiffLines ==
    [origin : {"Context", "Deletion"}, path : {Some("A.java")},
     old_lineno : {Some(1)}, blame : Blames]
    \cup
    [origin : {"Addition", "AddEOFNL"}, path : {Some("b.txt"), None},
     old_lineno : {None}, blame : Blames]

MaxLines == 2

DiffInputs == UNION {[1..k -> DiffLines] : k \in 0..MaxLines}

\* A callback body that does not look at is_boundary.
LineChangedBeforeOrBoundary(line) ==
    IF line.origin \in SkippedOrigins THEN FALSE
    ELSE IF line.path = None THEN FALSE
    ELSE IF line.blame = "Err" THEN FALSE
    ELSE IF line.old_lineno = None THEN FALSE
    ELSE IF line.blame = "NoHunk" THEN FALSE
    ELSE TRUE

\* A callback body that asks the blame for a line without an old line number.
LineChangedBeforeAnyLine(line) ==
    IF line.origin \in SkippedOrigins THEN FALSE
    ELSE IF line.path = None THEN FALSE
    ELSE IF line.blame = "Err" THEN FALSE
    ELSE IF line.blame = "NoHunk" THEN FALSE
    ELSE line.blame # "Boundary"

\* The callback body after the early return on the flag, lines 106-137: the
\* value it leaves in changed_same_line.
LineChangedBefore(line) ==
    IF line.origin \in SkippedOrigins THEN FALSE
    ELSE IF line.path = None THEN FALSE
    ELSE IF line.blame = "Err" THEN FALSE
    ELSE IF line.old_lineno = None THEN FALSE
    ELSE IF line.blame = "NoHunk" THEN FALSE
    ELSE line.blame # "Boundary"

\* diff.foreach over all the lines: the flag at the end.
RECURSIVE ScanLines(_, _)
ScanLines(lines, flag) ==
    IF lines = <<>> THEN flag
    ELSE ScanLines(Tail(lines), IF flag THEN TRUE ELSE LineChangedBefore(Head(lines)))

\* diff_commits(..).expect(..); let mut changed_same_line = false;
BeginSameLine ==
    /\ pc = "start"
    /\ call.fn = "changed_same_line"
    /\ \/ \E lines \in DiffInputs :
            /\ diff' = lines
            /\ pc' = "lines"
            /\ UNCHANGED <<fault, result>>
       \/ /\ fault' = "diff"
          /\ result' = Panic("expect")
          /\ pc' = "done"
          /\ UNCHANGED diff
    /\ changed_same_line' = FALSE
    /\ UNCHANGED <<parents, head, time, call, ancestor, descendants, walked, got,
                   lookups, merges, log, tree, o_to_a, o_to_b, kept, cursor,
                   stdout, caller, checked>>
    /\ UNCHANGED filesVars

\* One call of the line callback.
LineCallback ==
    /\ pc = "lines"
    /\ cursor < Len(diff)
    /\ LET line == diff[cursor + 1] IN
         \/ /\ changed_same_line' =
                 IF changed_same_line THEN TRUE ELSE LineChangedBefore(line)
            /\ checked' = Append(checked, [line |-> cursor + 1,
                                           examined |-> ~changed_same_line])
            /\ cursor' = cursor + 1
            /\ UNCHANGED <<pc, fault, result, diff>>
         \/ \* foreach fails while loading the content: .expect(..) panics
            /\ fault' = "foreach"
            /\ result' = Panic("expect")
            /\ pc' = "done"
            /\ diff' = <<>>
            /\ cursor' = 0
            /\ checked' = <<>>
            /\ changed_same_line' = FALSE
    /\ UNCHANGED <<parents, head, time, call, ancestor, descendants, walked, got,
                   lookups, merges, log, tree, o_to_a, o_to_b, kept, stdout, caller>>
    /\ UNCHANGED filesVars

\* foreach is through; the flag is returned.
EndSameLine ==
    /\ pc = "lines"
    /\ cursor = Len(diff)
    /\ result' = Ok(changed_same_line)
    /\ pc' = "done"
    /\ UNCHANGED <<parents, head, time, call, ancestor, descendants, walked, got,
                   lookups, merges, log, fault, publishVars>>
    /\ UNCHANGED filesVars

InitSameLine ==
    /\ parents = [c \in Commits |-> <<>>]
    /\ head = MaxCommits
    /\ time = [c \in Commits |-> 0]
    /\ call = [fn |-> "changed_same_line", arg |-> <<>>]
    /\ InitIdle

NextSameLine ==
    \/ BeginSameLine
    \/ LineCallback
    \/ EndSameLine

SpecSameLine == InitSameLine /\ [][NextSameLine]_vars

\* A changed line of the diff that the blame over [O, M] resolves to a hunk
\* of a commit after the boundary.
ResolvesPastBoundary(line) ==
    /\ line.origin \in {"Addition", "Deletion"}
    /\ line.path # None
    /\ line.old_lineno # None
    /\ line.blame = "Changed"

\* C16: a changed line whose blame is the boundary counts as no overlap and
\* the lines after it are still examined; the result is true exactly when
\* some changed line resolves to a hunk that is not the boundary, and it is
\* false only after every line was examined.
C16_BoundaryIsNoOverlap ==
    /\ \A i \in 1..Len(checked) :
         (checked[i].examined /\ diff[checked[i].line].blame = "Boundary")
         => (changed_same_line => \E j \in (i + 1)..Len(checked) :
                                     ResolvesPastBoundary(diff[j]))
    /\ (pc = "done" /\ fault = "none")
       => /\ result = Ok(\E i \in 1..Len(diff) : ResolvesPastBoundary(diff[i]))
          /\ result = Ok(FALSE)
             => /\ Len(checked) = Len(diff)
                /\ \A i \in 1..Len(checked) : checked[i].examined

\* C16 happens: the first changed line resolved to the boundary, the scan
\* went on and a later changed line made the result true.
C16_Witness ==
    /\ pc = "done"
    /\ result = Ok(TRUE)
    /\ Len(diff) = 2
    /\ diff[1].origin = "Deletion" /\ diff[1].blame = "Boundary"
    /\ diff[2].origin = "Deletion" /\ diff[2].blame = "Changed"
    /\ checked[2].examined

(***************************************************************************)
(* print_bug_fix_csv and print_bug_fix_csv_overlapping_lines (publish.rs), *)
(* for one line of the commit list: find_bug_fixing_commits on M, then the *)
(* distance filter and the file or line filter on each candidate.          *)
(***************************************************************************)
CsvFunctions == {"print_bug_fix_csv", "print_bug_fix_csv_overlapping_lines"}

\* The fix distances tried: none, direct children, the whole history.
FixDistances == {0, 1, MaxCommits}

\* A reference set that takes the files of either side.
MergeChangesEitherSide(changed_a, changed_b) == changed_a \cup changed_b

\* let merge_changes: HashSet<_> = o_to_a.intersection(&o_to_b)..collect();
MergeChanges(changed_a, changed_b) == changed_a \cap changed_b

\* A parent check that lets merge commits through.
HasAParent(c) == Len(parents[c]) >= 1

\* child_commit.parent_count() != 1 => return false
HasOneParent(c) == Len(parents[c]) = 1

\* merge_changes.intersection(&bugfix_changes).next().is_some()
SharesAFile(merge_changes, bugfix_changes) == merge_changes \cap bugfix_changes # {}

\* Oid::from_str(..).unwrap() of the ids of the line, diff O->A and O->B.
BeginBugFixCsv ==
    /\ pc = "start"
    /\ call.fn \in CsvFunctions
    /\ LET o == OidFromStr(call.arg.o)
           a == OidFromStr(call.arg.a)
           b == OidFromStr(call.arg.b)
           m == OidFromStr(call.arg.m)
           used == IF call.fn = "print_bug_fix_csv" THEN {o, a, b, m} ELSE {o, m}
       IN
         IF \E r \in used : r.status = "Err"
         THEN /\ result' = Panic("unwrap")
              /\ pc' = "returned"
              /\ UNCHANGED <<call, caller, tree, o_to_a, o_to_b, fault>>
         ELSE IF call.fn = "print_bug_fix_csv_overlapping_lines"
         THEN /\ caller' = call
              /\ call' = [fn |-> "find_bug_fixing_commits", arg |-> call.arg.m]
              /\ UNCHANGED <<pc, result, tree, o_to_a, o_to_b, fault>>
         ELSE IF {o.value, a.value, b.value} \subseteq Commits
         THEN \/ \E to \in FirstTreeOptions(o.value), ta \in TreeOptions(a.value),
                    tb \in TreeOptions(b.value) :
                   /\ (o.value = a.value => to = ta)
                   /\ (o.value = b.value => to = tb)
                   /\ (a.value = b.value => ta = tb)
                   /\ tree' = [tree EXCEPT ![o.value] = to, ![a.value] = ta,
                                           ![b.value] = tb]
                   /\ o_to_a' = ChangedFilenames(to, ta)
                   /\ o_to_b' = ChangedFilenames(to, tb)
                   /\ caller' = call
                   /\ call' = [fn |-> "find_bug_fixing_commits", arg |-> call.arg.m]
                   /\ UNCHANGED <<pc, result, fault>>
              \/ \* a tree cannot be read or diffed: .expect(..) panics
                 /\ fault' = "reference_diff"
                 /\ result' = Panic("expect")
                 /\ pc' = "returned"
                 /\ UNCHANGED <<call, caller, tree, o_to_a, o_to_b>>
         ELSE \* find_commit fails in diff_commits: .expect(..) panics
              /\ result' = Panic("expect")
              /\ pc' = "returned"
              /\ UNCHANGED <<call, caller, tree, o_to_a, o_to_b, fault>>
    /\ UNCHANGED <<parents, head, time, ancestor, descendants, walked, got,
                   lookups, merges, log, kept, cursor, stdout, diff,
                   changed_same_line, checked>>
    /\ UNCHANGED filesVars

\* match find_bug_fixing_commits(repo, m_commit) { Ok(descendants) => ..,
\* Err(e) => eprintln!(..) }
TakeFixes ==
    /\ pc = "done"
    /\ caller.fn \in CsvFunctions
    /\ IF result.status = "Ok"
       THEN pc' = "candidates" /\ UNCHANGED log
       ELSE /\ pc' = "returned"
            /\ log' = IF result.status = "Err"
                      THEN Append(log, [line |-> "Failed to find bug fixing commit",
                                        commit |-> caller.arg.m])
                      ELSE log
    /\ UNCHANGED <<parents, head, time, call, ancestor, descendants, walked, got,
                   lookups, merges, fault, result, publishVars>>
    /\ UNCHANGED filesVars

\* The diffs of a candidate against its parent tried by the line variant:
\* no line or one line.
CandidateDiffs == {<<>>} \cup {<<line>> : line \in DiffLines}

\* What the examination of one candidate leaves when it panics.
CandidatePanic(kind, how) ==
    /\ fault' = kind
    /\ result' = Panic(how)
    /\ pc' = "returned"
    /\ kept' = <<>>
    /\ checked' = <<>>
    /\ cursor' = 0
    /\ UNCHANGED tree

\* What the examination of one candidate leaves when the closures return.
CandidateVerdict(child, within, one_parent, keep) ==
    /\ checked' = Append(checked, [child |-> child, within |-> within,
                                   one_parent |-> one_parent, keep |-> keep])
    /\ kept' = IF keep THEN Append(kept, child) ELSE kept
    /\ cursor' = cursor + 1
    /\ UNCHANGED <<pc, fault, result>>

\* One candidate through .filter(within_n_generations).filter(overlap).
FilterCandidate ==
    /\ pc = "candidates"
    /\ cursor < Len(result.value)
    /\ LET child == result.value[cursor + 1]
           m_oid == OidFromStr(caller.arg.m).value
           within == within_n_generations(m_oid, child, caller.arg.fix_distance).value
       IN
         \/ \* repo.find_commit(..).unwrap() fails, in within_n_generations or
            \* in the second closure
            CandidatePanic("candidate_lookup", "unwrap")
         \/ /\ ~within
            /\ CandidateVerdict(child, FALSE, FALSE, FALSE)
            /\ UNCHANGED tree
         \/ /\ within
            /\ ~HasOneParent(child)
            /\ CandidateVerdict(child, TRUE, FALSE, FALSE)
            /\ UNCHANGED tree
         \/ /\ within
            /\ HasOneParent(child)
            /\ caller.fn = "print_bug_fix_csv"
            /\ LET bfc_parent == parents[child][1] IN
                 \/ \E tp \in FirstTreeOptions(bfc_parent), tc \in TreeOptions(child) :
                       /\ tree' = [tree EXCEPT ![bfc_parent] = tp, ![child] = tc]
                       /\ CandidateVerdict(child, TRUE, TRUE,
                              SharesAFile(MergeChanges(o_to_a, o_to_b),
                                          ChangedFilenames(tp, tc)))
                 \/ CandidatePanic("candidate_diff", "expect")
         \/ /\ within
            /\ HasOneParent(child)
            /\ caller.fn = "print_bug_fix_csv_overlapping_lines"
            /\ \/ \E lines \in CandidateDiffs :
                     /\ CandidateVerdict(child, TRUE, TRUE, ScanLines(lines, FALSE))
                     /\ UNCHANGED tree
               \/ CandidatePanic("candidate_diff", "expect")
    /\ UNCHANGED <<parents, head, time, call, ancestor, descendants, walked, got,
                   lookups, merges, log, o_to_a, o_to_b, stdout, diff,
                   changed_same_line, caller>>
    /\ UNCHANGED filesVars

\* A lookup that gives the element after the one asked for.
VecGetNext(v, index) == IF index + 1 < Len(v) THEN Some(v[index + 2]) ELSE None

\* Vec::get: the element at a zero-based index, None past the end.
VecGet(v, index) == IF index < Len(v) THEN Some(v[index + 1]) ELSE None

\* bugfix.map(|oid| oid.to_string()).unwrap_or_default()
FixColumn(bugfix) == IF bugfix = None THEN <<>> ELSE OidStr(bugfix[1])

\* println!("{},{},{},{}", m_commit, ..): the four columns of the line.
print_merge_bugfix_csv_line(m_commit, bugfix1, bugfix2, bugfix3) ==
    [m |-> m_commit, bugfix1 |-> FixColumn(bugfix1),
     bugfix2 |-> FixColumn(bugfix2), bugfix3 |-> FixColumn(bugfix3)]

\* print_merge_bugfix_csv_line(m_commit, descendants.get(0), .get(1), .get(2))
PrintFixes ==
    /\ pc = "candidates"
    /\ cursor = Len(result.value)
    /\ stdout' = Append(stdout,
                    print_merge_bugfix_csv_line(caller.arg.m, VecGet(kept, 0),
                                                VecGet(kept, 1), VecGet(kept, 2)))
    /\ pc' = "returned"
    /\ UNCHANGED <<parents, head, time, call, ancestor, descendants, walked, got,
                   lookups, merges, log, fault, result, tree, o_to_a, o_to_b,
                   kept, cursor, diff, changed_same_line, caller, checked>>
    /\ UNCHANGED filesVars

\* The lines of the commit list tried: O is the oldest commit, A is O or
\* the commit after it, B a commit after A; M is any commit, or no id at
\* all. The line variant reads O and M only.
CommitListLines ==
    [o : {OidStr(1)}, a : {OidStr(1), OidStr(2)}, b : {OidStr(3)},
     m : {OidStr(c) : c \in Commits} \cup {<<"g">>},
     fix_distance : FixDistances]

\* The histories of one line of development: every commit after the first
\* has the commit before it as a parent, alone or at a merge with an older
\* commit.
MainlineHistories ==
    {h \in HistoriesOfMerges : \A c \in Commits \ {1} : (c - 1) \in Range(h[c])}

InitBugFixCsv ==
    /\ parents \in MainlineHistories
    /\ head = MaxCommits
    /\ time = [c \in Commits |-> 0]
    /\ call \in [fn : CsvFunctions, arg : CommitListLines]
    /\ call.fn = "print_bug_fix_csv_overlapping_lines" => call.arg.a = call.arg.o
    /\ InitIdle

NextBugFixCsv ==
    \/ BeginBugFixCsv
    \/ ParseAncestor
    \/ BeginDescendants
    \/ WalkDescendants
    \/ EndDescendants
    \/ FilterSummaries
    \/ TakeFixes
    \/ FilterCandidate
    \/ PrintFixes

SpecBugFixCsv == InitBugFixCsv /\ [][NextBugFixCsv]_vars

(***************************************************************************)
(* Claims about the candidate filters, checked under SpecBugFixCsv.        *)
(***************************************************************************)
\* C13: with a fix distance at least the number of commits reachable from
\* head, the distance filter removes no candidate: within_n_generations is
\* true for every candidate examined and for every element of what
\* get_descendants returned for M.
C13_LargeDistanceKeepsAll ==
    (caller.fn \in CsvFunctions
     /\ caller.arg.fix_distance >= Cardinality(Reachable))
    => /\ \A i \in 1..Len(checked) : checked[i].within
       /\ got.status = "Ok"
          => \A e \in Range(got.value) :
                within_n_generations(ancestor, e, caller.arg.fix_distance) = Ok(TRUE)

\* C13 happens: two candidates were examined with the large distance, one of
\* them no direct child of M.
C13_Witness ==
    /\ pc = "returned"
    /\ caller.fn \in CsvFunctions
    /\ caller.arg.fix_distance >= Cardinality(Reachable)
    /\ Len(checked) >= 2
    /\ \E i \in 1..Len(checked) :
         /\ checked[i].within
         /\ ancestor \notin ParentSet(checked[i].child)

\* C14: neither the file filter nor the line filter retains a candidate
\* whose parent count is not 1, whatever it changes.
C14_OnlySingleParentKept ==
    caller.fn \in CsvFunctions
    => /\ \A i \in 1..Len(kept) : Len(parents[kept[i]]) = 1
       /\ \A i \in 1..Len(checked) :
            checked[i].keep => Len(parents[checked[i].child]) = 1
       /\ \A i \in 1..Len(stdout) :
            \A column \in {stdout[i].bugfix1, stdout[i].bugfix2, stdout[i].bugfix3} :
                column # <<>> => Len(parents[OidFromStr(column).value]) = 1

\* C14 happens: the line filter met a merge commit that had passed the
\* distance filter, dropped it, and kept another candidate.
C14_Witness ==
    /\ pc = "returned"
    /\ caller.fn = "print_bug_fix_csv_overlapping_lines"
    /\ kept # <<>>
    /\ \E i \in 1..Len(checked) :
         /\ checked[i].within
         /\ Len(parents[checked[i].child]) = 2
         /\ ~checked[i].keep

\* C14 happens for the file filter too.
C14_WitnessFiles ==
    /\ pc = "returned"
    /\ caller.fn = "print_bug_fix_csv"
    /\ kept # <<>>
    /\ \E i \in 1..Len(checked) :
         /\ checked[i].within
         /\ Len(parents[checked[i].child]) = 2
         /\ ~checked[i].keep

\* The files that differ between the trees of two commits.
FilesChangedBetween(old, new) == {p \in Paths : tree[old][p] # tree[new][p]}

\* The reference set of the line of the commit list: the files changed from
\* O to A that are also changed from O to B.
ReferenceFiles ==
    LET o == OidFromStr(caller.arg.o).value
        a == OidFromStr(caller.arg.a).value
        b == OidFromStr(caller.arg.b).value
    IN  {p \in Paths : p \in FilesChangedBetween(o, a) /\ p \in FilesChangedBetween(o, b)}

\* C15: the file filter retains a single-parent candidate exactly when a
\* file changed between its parent and itself is in the reference set, the
\* files changed both from O to A and from O to B.
C15_FileOverlap ==
    caller.fn = "print_bug_fix_csv"
    => /\ \A i \in 1..Len(checked) :
            LET c == checked[i].child IN
              (checked[i].within /\ Len(parents[c]) = 1)
              => (checked[i].keep <=>
                    \E p \in FilesChangedBetween(parents[c][1], c) : p \in ReferenceFiles)
       /\ kept = SelectSeq([i \in 1..Len(checked) |-> checked[i].child],
                           LAMBDA c : \E i \in 1..Len(checked) :
                                         checked[i].child = c /\ checked[i].keep)

\* C15 happens: one single-parent candidate was retained, another one that
\* changes a file was dropped because the reference set, not empty, does not
\* hold that file.
C15_Witness ==
    /\ pc = "returned"
    /\ caller.fn = "print_bug_fix_csv"
    /\ kept # <<>>
    /\ ReferenceFiles # {}
    /\ \E i \in 1..Len(checked) :
         LET c == checked[i].child IN
           /\ checked[i].within
           /\ Len(parents[c]) = 1
           /\ ~checked[i].keep
           /\ FilesChangedBetween(parents[c][1], c) # {}

\* C17: a lookup or diff failure on one candidate drops that candidate only:
\* the pass does not abort, every candidate is examined and the line of M is
\* printed.
C17_FailureDropsOneCandidate ==
    (pc = "returned" /\ fault \in {"candidate_lookup", "candidate_diff"})
    => /\ result.status = "Ok"
       /\ Len(checked) = Len(result.value)
       /\ Len(stdout) = 1

(***************************************************************************)
(* Claims about failures of the descendant query: C18 under SpecFix, C19   *)
(* under SpecDesc.                                                         *)
(***************************************************************************)
\* The strings that are the hexadecimal form of an id.
WellFormedIds == {OidStr(o) : o \in Oids}

\* C18: find_bug_fixing_commits on a string that is no well-formed id makes
\* no revwalk and no commit lookup, and returns an error and no candidates.
C18_MalformedFailsFirst ==
    (call.fn = "find_bug_fixing_commits" /\ call.arg \notin WellFormedIds)
    => /\ pc \in {"start", "done"}
       /\ walked = {}
       /\ descendants = <<>>
       /\ lookups = <<>>
       /\ got = NoResult
       /\ fault = "none"
       /\ pc = "done" => result.status = "Err"

\* C18 happens: the call on a string with a letter that is no hex digit has
\* returned.
C18_Witness ==
    /\ pc = "done"
    /\ call.fn = "find_bug_fixing_commits"
    /\ call.arg = <<"g">>
    /\ result.status = "Err"

\* C19: a failure of the traversal in get_descendants, of its setup or of
\* one of its items, comes back to the caller as an error result: the
\* process is not aborted and no descendants are returned.
C19_TraversalFailureIsError ==
    (pc = "done" /\ fault \in {"revwalk", "walk_item"})
    => result.status = "Err"

(***************************************************************************)
(* print_csv_of_merges and folder_dump (publish.rs): find_merges, then one *)
(* loop over the merges found.                                             *)
(***************************************************************************)
MergePublishers == {"print_csv_of_merges", "folder_dump"}

\* The characters of a path.
PathText(p) ==
    IF p = "A.java" THEN <<"A", ".", "j", "a", "v", "a">>
    ELSE <<"b", ".", "t", "x", "t">>

\* str::ends_with
EndsWith(text, suffix) ==
    /\ Len(suffix) <= Len(text)
    /\ SubSeq(text, Len(text) - Len(suffix) + 1, Len(text)) = suffix

\* let java_extensions = vec![".java"];
java_extensions == <<<<".", "j", "a", "v", "a">>>>

\* .filter(|filename| only_extensions.iter().any(|ext| filename.ends_with(ext)))
OnlyExtensions(files, only_extensions) ==
    {p \in files : \E i \in 1..Len(only_extensions) :
                       EndsWith(PathText(p), only_extensions[i])}

\* changed_same_file, given the files changed by the two diffs.
changed_same_file(files1, files2, only_extensions) ==
    OnlyExtensions(files1, only_extensions)
        \cap OnlyExtensions(files2, only_extensions) # {}

\* A check that compares O with A only.
has_distinct_o_from_a(merge) == merge.o # merge.a

\* ThreeWayMerge::has_distinct_o
has_distinct_o(merge) == merge.o # merge.a /\ merge.o # merge.b

\* folder_dump: create_dir_all, read_dir, panic on a folder that is not
\* empty; then both functions call find_merges.
BeginPublishMerges ==
    /\ pc = "start"
    /\ call.fn \in MergePublishers
    /\ \/ /\ caller' = [fn |-> call.fn, arg |-> call.arg, from |-> caller]
          /\ call' = [fn |-> "find_merges", arg |-> call.arg.before]
          /\ UNCHANGED <<pc, fault, result>>
       \/ /\ call.fn = "folder_dump"
          /\ fault' = "output_folder"
          /\ result' = Panic("output-folder")
          /\ pc' = "returned"
          /\ UNCHANGED <<call, caller>>
    /\ UNCHANGED <<parents, head, time, ancestor, descendants, walked, got,
                   lookups, merges, log, tree, o_to_a, o_to_b, kept, cursor,
                   stdout, diff, changed_same_line, checked>>
    /\ UNCHANGED filesVars

\* find_merges has returned: println!("O,A,B,M,changed_files,timestamp")
TakeMerges ==
    /\ pc = "done"
    /\ caller.fn \in MergePublishers
    /\ IF result.status = "Ok"
       THEN /\ pc' = "merges"
            /\ stdout' = IF caller.fn = "print_csv_of_merges"
                         THEN <<[header |-> "O,A,B,M,changed_files,timestamp"]>>
                         ELSE stdout
       ELSE pc' = "returned" /\ UNCHANGED stdout
    /\ UNCHANGED <<parents, head, time, call, ancestor, descendants, walked, got,
                   lookups, merges, log, fault, result, tree, o_to_a, o_to_b,
                   kept, cursor, diff, changed_same_line, caller, checked>>
    /\ UNCHANGED filesVars

\* What one iteration leaves when the merge is skipped or reported.
MergeVerdict(merge, verdict) ==
    /\ checked' = Append(checked, [merge |-> merge, verdict |-> verdict])
    /\ kept' = IF verdict = "reported" THEN Append(kept, merge) ELSE kept
    /\ cursor' = cursor + 1
    /\ UNCHANGED <<pc, fault, result>>

\* What one iteration leaves when a lookup, a diff or a write panics.
MergePanic ==
    /\ fault' = "merge_files"
    /\ result' = Panic("expect")
    /\ pc' = "returned"
    /\ kept' = <<>>
    /\ checked' = <<>>
    /\ cursor' = 0
    /\ UNCHANGED <<tree, stdout>>

\* One iteration of `for merge in merges`.
PublishMerge ==
    /\ pc = "merges"
    /\ cursor < Len(result.value)
    /\ LET merge == result.value[cursor + 1]
           same_file == caller.fn = "print_csv_of_merges"
                        /\ caller.arg.should_touch_same_file
           all_files == caller.fn = "folder_dump" /\ caller.arg.all_files
       IN
         IF caller.arg.distinct_o /\ ~has_distinct_o(merge)
         THEN MergeVerdict(merge, "not_distinct") /\ UNCHANGED <<tree, stdout>>
         ELSE
           \/ \E to \in FirstTreeOptions(merge.o),
                 ta \in IF same_file THEN TreeOptions(merge.a) ELSE {tree[merge.a]},
                 tb \in IF same_file THEN TreeOptions(merge.b) ELSE {tree[merge.b]} :
                /\ (same_file /\ merge.o = merge.a => to = ta)
                /\ (same_file /\ merge.o = merge.b => to = tb)
                /\ IF same_file
                      /\ ~changed_same_file(ChangedFilenames(to, ta),
                                            ChangedFilenames(to, tb), java_extensions)
                   THEN /\ tree' = [tree EXCEPT ![merge.a] = ta, ![merge.b] = tb,
                                                ![merge.o] = to]
                        /\ MergeVerdict(merge, "no_same_file")
                        /\ UNCHANGED stdout
                   ELSE \E tm \in TreeOptions(merge.m) :
                          /\ tree' = [tree EXCEPT ![merge.a] = ta, ![merge.b] = tb,
                                                  ![merge.o] = to, ![merge.m] = tm]
                          /\ MergeVerdict(merge, "reported")
                          /\ stdout' = Append(stdout,
                               IF caller.fn = "print_csv_of_merges"
                               THEN [o |-> merge.o, a |-> merge.a, b |-> merge.b,
                                     m |-> merge.m,
                                     changed_files |->
                                        Cardinality(ChangedFilenames(to, tm)),
                                     timestamp |-> time[merge.m]]
                               ELSE [folder |-> merge.m,
                                     files |-> IF all_files THEN Paths
                                               ELSE ChangedFilenames(to, tm)])
           \/ MergePanic
    /\ UNCHANGED <<parents, head, time, call, ancestor, descendants, walked, got,
                   lookups, merges, log, o_to_a, o_to_b, diff, changed_same_line,
                   caller>>
    /\ UNCHANGED filesVars

\* The loop is through.
EndPublishMerges ==
    /\ pc = "merges"
    /\ cursor = Len(result.value)
    /\ pc' = "returned"
    /\ UNCHANGED <<parents, head, time, call, ancestor, descendants, walked, got,
                   lookups, merges, log, fault, result, publishVars>>
    /\ UNCHANGED filesVars

PublishArguments ==
    [before : {None}, distinct_o : BOOLEAN, should_touch_same_file : BOOLEAN]
    \cup [before : {None}, distinct_o : BOOLEAN, all_files : BOOLEAN]

InitPublishMerges ==
    /\ parents \in HistoriesOfMerges
    /\ head = MaxCommits
    /\ \A c \in Commits \ Reachable : parents[c] = <<>>
    /\ time = [c \in Commits |-> 0]
    /\ call \in [fn : MergePublishers, arg : PublishArguments]
    /\ (call.fn = "folder_dump") = ("all_files" \in DOMAIN call.arg)
    /\ InitIdle

NextPublishMerges ==
    \/ BeginPublishMerges
    \/ BeginMerges
    \/ WalkMerges
    \/ EndMerges
    \/ TakeMerges
    \/ PublishMerge
    \/ EndPublishMerges

SpecPublishMerges == InitPublishMerges /\ [][NextPublishMerges]_vars

(***************************************************************************)
(* Claim about the distinct-origin filter of the two merge reports.        *)
(***************************************************************************)
\* The merges a finished report has written: CSV lines or dumped folders.
ReportedMerges ==
    {r \in {stdout[i] : i \in 1..Len(stdout)} : "header" \notin DOMAIN r}

\* The merges find_merges handed to the report.
DetectedMerges == {result.value[i] : i \in 1..Len(result.value)}

\* The report ran through its loop without a panic.
ReportFinished ==
    /\ pc = "returned"
    /\ caller.fn \in MergePublishers
    /\ result.status = "Ok"

\* The merge has a line in the CSV output, or a folder in the dump.
IsReported(merge) ==
    \E r \in ReportedMerges :
        IF caller.fn = "print_csv_of_merges"
        THEN r.o = merge.o /\ r.a = merge.a /\ r.b = merge.b /\ r.m = merge.m
        ELSE r.folder = merge.m

\* The only other ground on which a CSV line is withheld: the same-file
\* filter is on and the diffs O->A and O->B share no .java file.
WithheldBySameFile(merge) ==
    /\ caller.fn = "print_csv_of_merges"
    /\ caller.arg.should_touch_same_file
    /\ OnlyExtensions(FilesChangedBetween(merge.o, merge.a), java_extensions)
         \cap OnlyExtensions(FilesChangedBetween(merge.o, merge.b), java_extensions)
       = {}

\* C20: with the distinct-origin filter enabled, no reported merge (CSV line
\* or dumped folder) has O equal to A or O equal to B, and every detected
\* merge whose O differs from both A and B is still reported (the same-file
\* filter of the CSV report being the only other ground for withholding a
\* line); with the filter disabled no detected merge is withheld because of
\* its O.
C20_DistinctOriginFilter ==
    ReportFinished =>
        /\ caller.arg.distinct_o =>
              \A merge \in DetectedMerges :
                  /\ IsReported(merge) => merge.o # merge.a /\ merge.o # merge.b
                  /\ merge.o # merge.a /\ merge.o # merge.b
                       => IsReported(merge) \/ WithheldBySameFile(merge)
        /\ ~caller.arg.distinct_o =>
              \A merge \in DetectedMerges :
                  IsReported(merge) \/ WithheldBySameFile(merge)
        /\ \A i \in 1..Len(checked) :
              checked[i].verdict = "not_distinct"
                  => /\ caller.arg.distinct_o
                     /\ checked[i].merge.o \in {checked[i].merge.a, checked[i].merge.b}

\* A report with the filter enabled withheld a merge whose O is A or B.
C20_Witness ==
    /\ ReportFinished
    /\ caller.arg.distinct_o
    /\ \E merge \in DetectedMerges :
          merge.o \in {merge.a, merge.b} /\ ~IsReported(merge)

\* A report with the filter enabled wrote a merge whose O differs from both.
C20_WitnessKept ==
    /\ ReportFinished
    /\ caller.arg.distinct_o
    /\ \E merge \in DetectedMerges :
          merge.o \notin {merge.a, merge.b} /\ IsReported(merge)

\* A report with the filter disabled wrote a merge whose O is A or B.
C20_WitnessDisabled ==
    /\ ReportFinished
    /\ ~caller.arg.distinct_o
    /\ \E merge \in DetectedMerges :
          merge.o \in {merge.a, merge.b} /\ IsReported(merge)

(***************************************************************************)
(* changed_same_file on its own (git_utils.rs 148-167), for any two diffs  *)
(* and any list of extensions.                                             *)
(***************************************************************************)
\* The lists of extensions a caller can pass, the empty list among them.
ExtensionLists ==
    {<<>>,
     <<<<".", "j", "a", "v", "a">>>>,
     <<<<".", "t", "x", "t">>>>,
     <<<<".", "j", "a", "v", "a">>, <<".", "t", "x", "t">>>>}

\* changed_filenames(..) twice, each with
\* diff_commits(..).expect("Failed to diff commits"), then the two filters
\* and is_disjoint.
CallChangedSameFile ==
    /\ pc = "start"
    /\ call.fn = "changed_same_file"
    /\ LET arg == call.arg
       IN  IF {arg.commit1_old, arg.commit1_new, arg.commit2_old, arg.commit2_new}
                 \subseteq Commits
           THEN /\ result' = Ok(changed_same_file(
                                 ChangedFilenames(tree[arg.commit1_old],
                                                  tree[arg.commit1_new]),
                                 ChangedFilenames(tree[arg.commit2_old],
                                                  tree[arg.commit2_new]),
                                 arg.only_extensions))
                /\ UNCHANGED fault
           ELSE /\ result' = Panic("expect")
                /\ fault' = "diff"
    /\ pc' = "done"
    /\ UNCHANGED <<parents, head, time, call, ancestor, descendants, walked, got,
                   lookups, merges, log, tree, o_to_a, o_to_b, kept, cursor,
                   stdout, diff, changed_same_line, caller, checked>>
    /\ UNCHANGED filesVars

InitSameFile ==
    /\ parents = [c \in Commits |-> IF c = 1 THEN <<>> ELSE <<c - 1>>]
    /\ head = MaxCommits
    /\ time = [c \in Commits |-> 0]
    /\ call \in [fn : {"changed_same_file"},
                 arg : [commit1_old : {1}, commit1_new : Oids,
                        commit2_old : {1, 2}, commit2_new : Commits,
                        only_extensions : ExtensionLists]]
    /\ pc = "start"
    /\ ancestor = MissingOid
    /\ descendants = <<>>
    /\ walked = {}
    /\ got = NoResult
    /\ lookups = <<>>
    /\ merges = <<>>
    /\ log = <<>>
    /\ fault = "none"
    /\ result = NoResult
    /\ tree \in [Commits -> TreeValues]
    /\ tree[1] = [p \in Paths |-> "v1"]
    /\ o_to_a = {}
    /\ o_to_b = {}
    /\ kept = <<>>
    /\ cursor = 0
    /\ stdout = <<>>
    /\ diff = <<>>
    /\ changed_same_line = FALSE
    /\ caller = NoCaller
    /\ checked = <<>>
    /\ filesystem = NoFiles
    /\ worklist = <<>>
    /\ yielded = <<>>

NextSameFile == CallChangedSameFile

SpecSameFile == InitSameFile /\ [][NextSameFile]_vars

\* The paths both diffs of the call change.
ChangedByBoth ==
    FilesChangedBetween(call.arg.commit1_old, call.arg.commit1_new)
        \cap FilesChangedBetween(call.arg.commit2_old, call.arg.commit2_new)

\* C21: changed_same_file with an empty list of extensions considers all
\* files, returning true exactly when the two diffs change a common path;
\* with a non-empty list it returns true exactly when they change a common
\* path that ends in one of the listed suffixes.
C21_EmptyListConsidersAll ==
    (pc = "done" /\ call.fn = "changed_same_file" /\ result.status = "Ok")
    => LET ext == call.arg.only_extensions
       IN  result.value =
             IF ext = <<>>
             THEN ChangedByBoth # {}
             ELSE \E p \in ChangedByBoth : \E i \in 1..Len(ext) :
                      EndsWith(PathText(p), ext[i])

(***************************************************************************)
(* handle_find_merges (main.rs 89-124): the find-merges subcommand from    *)
(* its command-line matches to the report it calls.                        *)
(***************************************************************************)
\* The matches of the subcommand: --output-folder given or not, --before,
\* --all-files, --distinct-o, --touches-same-file.
FindMergesMatches ==
    [output_folder : BOOLEAN, before : {None}, all_files : BOOLEAN,
     distinct_o : BOOLEAN, touches_same_file : BOOLEAN]

\* create_revwalk(..).expect(..), then folder_dump when an output folder is
\* given and print_csv_of_merges otherwise, each with the arguments of the
\* call in main.rs.
HandleFindMerges ==
    /\ pc = "start"
    /\ call.fn = "handle_find_merges"
    /\ \/ /\ caller' = call
          /\ call' = IF call.arg.output_folder
                     THEN [fn |-> "folder_dump",
                           arg |-> [before |-> call.arg.before,
                                    distinct_o |-> call.arg.distinct_o,
                                    all_files |-> call.arg.all_files]]
                     ELSE [fn |-> "print_csv_of_merges",
                           arg |-> [before |-> call.arg.before,
                                    distinct_o |-> call.arg.distinct_o,
                                    should_touch_same_file |->
                                        call.arg.touches_same_file]]
          /\ UNCHANGED <<pc, fault, result>>
       \/ /\ fault' = "revwalk"
          /\ result' = Panic("expect")
          /\ pc' = "returned"
          /\ UNCHANGED <<call, caller>>
    /\ UNCHANGED <<parents, head, time, ancestor, descendants, walked, got,
                   lookups, merges, log, tree, o_to_a, o_to_b, kept, cursor,
                   stdout, diff, changed_same_line, checked>>
    /\ UNCHANGED filesVars

InitFindMerges ==
    /\ parents \in HistoriesOfMerges
    /\ head = MaxCommits
    /\ \A c \in Commits \ Reachable : parents[c] = <<>>
    /\ time = [c \in Commits |-> 0]
    /\ call \in [fn : {"handle_find_merges"}, arg : FindMergesMatches]
    /\ InitIdle

NextFindMerges ==
    \/ HandleFindMerges
    \/ BeginPublishMerges
    \/ BeginMerges
    \/ WalkMerges
    \/ EndMerges
    \/ TakeMerges
    \/ PublishMerge
    \/ EndPublishMerges

SpecFindMerges == InitFindMerges /\ [][NextFindMerges]_vars

\* The run has looked at the trees of O, A and B and found a file that
\* differs both between O and A and between O and B. A tree the run never
\* read can be any tree, that of O included.
SharesAChangedFile(merge) ==
    /\ \A c \in {merge.o, merge.a, merge.b} : tree[c] # Unread
    /\ FilesChangedBetween(merge.o, merge.a)
         \cap FilesChangedBetween(merge.o, merge.b) # {}

\* C22: when find-merges runs with --touches-same-file, every merge it
\* reports, as a CSV line or as a dumped folder, has a file changed both
\* between O and A and between O and B.
C22_ReportedTouchSameFile ==
    (/\ ReportFinished
     /\ caller.from.fn = "handle_find_merges"
     /\ caller.from.arg.touches_same_file)
    => \A merge \in DetectedMerges : IsReported(merge) => SharesAChangedFile(merge)

(***************************************************************************)
(* The line printed for a merge commit, for any surviving sequence         *)
(* (publish.rs 138-143, 155-168).                                          *)
(***************************************************************************)
MaxFixes == 4

\* The sequences .collect() can hand over: ids without repetition.
SurvivingSequences == SeqsNoDup(Oids, MaxFixes)

\* print_merge_bugfix_csv_line(m_commit, descendants.get(0), .get(1), .get(2))
PrintFixLine ==
    /\ pc = "start"
    /\ call.fn = "print_merge_bugfix_csv_line"
    /\ stdout' = Append(stdout,
                    print_merge_bugfix_csv_line(call.arg.m_commit,
                                                VecGet(call.arg.descendants, 0),
                                                VecGet(call.arg.descendants, 1),
                                                VecGet(call.arg.descendants, 2)))
    /\ pc' = "returned"
    /\ UNCHANGED <<parents, head, time, call, ancestor, descendants, walked, got,
                   lookups, merges, log, fault, result, tree, o_to_a, o_to_b,
                   kept, cursor, diff, changed_same_line, caller, checked>>
    /\ UNCHANGED filesVars

InitFixLine ==
    /\ parents = [c \in Commits |-> IF c = 1 THEN <<>> ELSE <<c - 1>>]
    /\ head = MaxCommits
    /\ time = [c \in Commits |-> 0]
    /\ call \in [fn : {"print_merge_bugfix_csv_line"},
                 arg : [m_commit : {OidStr(1)}, descendants : SurvivingSequences]]
    /\ InitIdle

NextFixLine == PrintFixLine

SpecFixLine == InitFixLine /\ [][NextFixLine]_vars

\* Column number i of a printed line.
FixColumnOf(line, i) ==
    IF i = 1 THEN line.bugfix1 ELSE IF i = 2 THEN line.bugfix2 ELSE line.bugfix3

\* C23: the bugfix1, bugfix2 and bugfix3 printed for a merge commit are the
\* first, second and third element of the surviving sequence, in its order;
\* a column is empty exactly when the sequence has fewer elements; and no
\* commit outside the surviving sequence is printed.
C23_FirstThreeSurvivors ==
    (pc = "returned" /\ call.fn = "print_merge_bugfix_csv_line")
    => LET survivors == call.arg.descendants
           line == stdout[1]
       IN  /\ Len(stdout) = 1
           /\ line.m = call.arg.m_commit
           /\ \A i \in 1..3 :
                /\ i <= Len(survivors) => FixColumnOf(line, i) = OidStr(survivors[i])
                /\ (FixColumnOf(line, i) = <<>>) = (Len(survivors) < i)
                /\ FixColumnOf(line, i) # <<>>
                     => \E j \in 1..Len(survivors) :
                            FixColumnOf(line, i) = OidStr(survivors[j])

\* C23 happens: a sequence of more than three survivors was printed.
C23_Witness ==
    /\ pc = "returned"
    /\ call.fn = "print_merge_bugfix_csv_line"
    /\ Len(call.arg.descendants) > 3
    /\ stdout[1].bugfix3 # <<>>

\* C23 happens: a sequence of two survivors left the third column empty.
C23_WitnessShort ==
    /\ pc = "returned"
    /\ call.fn = "print_merge_bugfix_csv_line"
    /\ Len(call.arg.descendants) = 2
    /\ stdout[1].bugfix2 # <<>>
    /\ stdout[1].bugfix3 = <<>>

\* The candidates of the pass that every filter kept, in the order examined.
RECURSIVE KeptOf(_)
KeptOf(verdicts) ==
    IF verdicts = <<>> THEN <<>>
    ELSE IF verdicts[1].keep
         THEN <<verdicts[1].child>> \o KeptOf(Tail(verdicts))
         ELSE KeptOf(Tail(verdicts))

\* The same in the two CSV functions: the line printed for M holds the first
\* three candidates that passed the distance and overlap filters, in the
\* order in which find_bug_fixing_commits returned them, and no candidate a
\* filter rejected.
C23_LineOfThePass ==
    (pc = "returned" /\ caller.fn \in CsvFunctions /\ Len(stdout) = 1)
    => LET survivors == KeptOf(checked)
           line == stdout[1]
       IN  /\ line.m = caller.arg.m
           /\ \A i \in 1..3 :
                /\ i <= Len(survivors) => FixColumnOf(line, i) = OidStr(survivors[i])
                /\ (FixColumnOf(line, i) = <<>>) = (Len(survivors) < i)
           /\ \A k \in 1..Len(checked) :
                ~checked[k].keep
                  => \A i \in 1..3 : FixColumnOf(line, i) # OidStr(checked[k].child)

\* A pass printed three fixes.
C23_WitnessOfThePass ==
    /\ pc = "returned"
    /\ caller.fn \in CsvFunctions
    /\ Len(stdout) = 1
    /\ stdout[1].bugfix3 # <<>>

(***************************************************************************)
(* RelativeFiles (relative_files.rs): the iterator over the files below a  *)
(* folder, driven until next() first returns None.                         *)
(***************************************************************************)
\* What a path can be: a regular file, a directory that can be read, a
\* directory that cannot, something that is neither file nor directory, or
\* nothing at all.
Kinds == {"file", "dir", "unreadable", "other", "absent"}

\* The file systems below the folder: whatever exists lies in a directory.
FileSystems ==
    {f \in [FilePaths -> Kinds] :
        \A p \in FilePaths :
            (Len(p) > 1 /\ f[p] # "absent")
                => f[SubSeq(p, 1, Len(p) - 1)] \in {"dir", "unreadable"}}

\* read_dir().flatten(): the entries of a directory, relative to the folder.
\* dir = <<>> is the folder itself.
ReadDir(dir) ==
    {p \in FilePaths : /\ Len(p) = Len(dir) + 1
                       /\ SubSeq(p, 1, Len(dir)) = dir
                       /\ filesystem[p] # "absent"}

\* .collect(): read_dir gives the entries in any order.
Orderings(S) == {v \in SeqsNoDup(S, Cardinality(S)) : Len(v) = Cardinality(S)}

\* RelativeFiles::open
OpenRelativeFiles ==
    /\ pc = "start"
    /\ call.fn = "relative_files"
    /\ IF call.arg.readable
       THEN worklist' \in Orderings(ReadDir(<<>>))
       ELSE worklist' = <<>>
    /\ pc' = "iterating"
    /\ UNCHANGED <<parents, head, time, call, ancestor, descendants, walked, got,
                   lookups, merges, log, fault, result, publishVars, filesystem,
                   yielded>>

\* What one call of next() can leave: the worklist, and the item returned.
\* The entries come from under the root, so strip_prefix gives the path
\* relative to it. A readable directory ends in `return self.next()`.
RECURSIVE NextOutcomes(_)
NextOutcomes(w) ==
    IF w = <<>>
    THEN {[worklist |-> w, item |-> None]}
    ELSE LET last_element == w[Len(w)]
             rest == SubSeq(w, 1, Len(w) - 1)
         IN  IF filesystem[last_element] = "file"
             THEN {[worklist |-> rest, item |-> Some(last_element)]}
             ELSE IF filesystem[last_element] = "dir"
             THEN UNION {NextOutcomes(rest \o contents) :
                            contents \in Orderings(ReadDir(last_element))}
             ELSE {[worklist |-> rest, item |-> None]}

\* One step of the loop over the iterator: next(), and the end of the loop
\* at the first None.
NextRelativeFile ==
    /\ pc = "iterating"
    /\ \E outcome \in NextOutcomes(worklist) :
         /\ worklist' = outcome.worklist
         /\ yielded' = yielded \o outcome.item
         /\ pc' = IF outcome.item = None THEN "returned" ELSE pc
    /\ UNCHANGED <<parents, head, time, call, ancestor, descendants, walked, got,
                   lookups, merges, log, fault, result, publishVars, filesystem>>

InitRelativeFiles ==
    /\ parents = [c \in Commits |-> IF c = 1 THEN <<>> ELSE <<c - 1>>]
    /\ head = MaxCommits
    /\ time = [c \in Commits |-> 0]
    /\ call \in [fn : {"relative_files"}, arg : [readable : BOOLEAN]]
    /\ pc = "start"
    /\ ancestor = MissingOid
    /\ descendants = <<>>
    /\ walked = {}
    /\ got = NoResult
    /\ lookups = <<>>
    /\ merges = <<>>
    /\ log = <<>>
    /\ fault = "none"
    /\ result = NoResult
    /\ tree = [c \in Commits |-> Unread]
    /\ o_to_a = {}
    /\ o_to_b = {}
    /\ kept = <<>>
    /\ cursor = 0
    /\ stdout = <<>>
    /\ diff = <<>>
    /\ changed_same_line = FALSE
    /\ caller = NoCaller
    /\ checked = <<>>
    /\ filesystem \in FileSystems
    /\ worklist = <<>>
    /\ yielded = <<>>

NextRelativeFiles ==
    \/ OpenRelativeFiles
    \/ NextRelativeFile

SpecRelativeFiles == InitRelativeFiles /\ [][NextRelativeFiles]_vars

\* The regular files that can be reached from the folder through
\* directories that can be read.
RegularFilesBelow ==
    IF ~call.arg.readable THEN {}
    ELSE {p \in FilePaths :
             /\ filesystem[p] = "file"
             /\ \A k \in 1..(Len(p) - 1) : filesystem[SubSeq(p, 1, k)] = "dir"}

\* C24: when next() first returns None, every regular file under the folder
\* has been yielded exactly once, as a path relative to the folder, no
\* directory has been yielded and the worklist is empty, whatever else the
\* folder contains.
C24_EveryFileOnce ==
    (pc = "returned" /\ call.fn = "relative_files")
    => /\ {yielded[i] : i \in 1..Len(yielded)} = RegularFilesBelow
       /\ \A i, j \in 1..Len(yielded) : yielded[i] = yielded[j] => i = j
       /\ worklist = <<>>

(***************************************************************************)
(* Claims about the order and the elements of what get_descendants         *)
(* returns, under SpecDesc.                                                *)
(***************************************************************************)
\* C25: in the sequence get_descendants returns, a commit that is a parent
\* of another returned commit stands at a smaller index than that commit;
\* this holds across merge commits and diverging branches.
C25_ParentsBeforeChildren ==
    (pc = "done" /\ call.fn = "get_descendants" /\ result.status = "Ok")
    => \A i, j \in 1..Len(result.value) :
          result.value[i] \in ParentSet(result.value[j]) => i < j

\* C25 happens: a merge commit is returned after both its parents, which
\* are returned in the opposite order of their age.
C25_Witness ==
    /\ pc = "done"
    /\ call.fn = "get_descendants"
    /\ result.status = "Ok"
    /\ \E i, j, k \in 1..Len(result.value) :
          /\ i < j /\ j < k
          /\ ParentSet(result.value[k]) = {result.value[i], result.value[j]}
          /\ result.value[i] > result.value[j]

\* No element of the sequence occurs twice.
NoRepetition(v) == \A i, j \in 1..Len(v) : v[i] = v[j] => i = j

\* C28: the sequence get_descendants builds, and the one it returns, holds
\* no commit more than once, whatever the history, commits with several
\* parents in the descendant set included.
C28_NoCommitTwice ==
    call.fn = "get_descendants"
    => /\ NoRepetition(descendants)
       /\ (pc = "done" /\ result.status = "Ok") => NoRepetition(result.value)

\* C28 happens: a returned commit has two parents that are returned as well.
C28_Witness ==
    /\ pc = "done"
    /\ call.fn = "get_descendants"
    /\ result.status = "Ok"
    /\ \E i \in 1..Len(result.value) :
          Cardinality(ParentSet(result.value[i]) \cap Range(result.value)) >= 2

(***************************************************************************)
(* Claim about the message filter inside find_bug_fixing_commits, under    *)
(* SpecFix.                                                                *)
(***************************************************************************)
\* The elements of v from index i on whose commit was found with a summary
\* that potential_bug_fix_summary accepts, in the order of v.
RECURSIVE MatchingFrom(_, _, _)
MatchingFrom(v, looked, i) ==
    IF i > Len(v) THEN <<>>
    ELSE (IF looked[i].status = "Ok" /\ potential_bug_fix_summary(looked[i].value)
          THEN <<v[i]>> ELSE <<>>)
         \o MatchingFrom(v, looked, i + 1)

\* C26: find_bug_fixing_commits returns exactly the subsequence of what
\* get_descendants returned that consists of the commits that were found
\* and whose summary satisfies the keyword heuristic, in the original
\* relative order.
C26_ExactlyTheMatching ==
    (pc = "done" /\ call.fn = "find_bug_fixing_commits"
        /\ got.status = "Ok" /\ fault = "none")
    => /\ result.status = "Ok"
       /\ Len(lookups) = Len(got.value)
       /\ result.value = MatchingFrom(got.value, lookups, 1)

\* C26 happens: of the descendants one was not found, one has no keyword,
\* and a matching one stands after them.
C26_Witness ==
    /\ pc = "done"
    /\ call.fn = "find_bug_fixing_commits"
    /\ got.status = "Ok"
    /\ fault = "none"
    /\ Len(got.value) >= 3
    /\ result.value # <<>>
    /\ \E i, j, k \in 1..Len(lookups) :
          /\ i < k /\ j < k
          /\ lookups[i].status = "Err"
          /\ lookups[j].status = "Ok" /\ ~potential_bug_fix_summary(lookups[j].value)
          /\ lookups[k].status = "Ok" /\ potential_bug_fix_summary(lookups[k].value)

(***************************************************************************)
(* Claim about the rows of the commit list, under SpecBugFixCsv. A row is  *)
(* one pass of the loop of a CSV function; a panic in it ends the process  *)
(* and with it the rows that follow.                                       *)
(***************************************************************************)
\* C29: print_bug_fix_csv and print_bug_fix_csv_overlapping_lines handle
\* every row: the pass for a row ends with one CSV line printed or one error
\* logged, and not in a panic, also when O, A, B or M of the row is
\* malformed or names no commit, so that the rows after it are processed.
C29_EveryRowHandled ==
    (/\ pc = "returned"
     /\ (call.fn \in CsvFunctions \/ caller.fn \in CsvFunctions)
     /\ fault = "none")
    => /\ result.status # "Panic"
       /\ \/ Len(stdout) = 1
          \/ \E i \in 1..Len(log) : log[i].line = "Failed to find bug fixing commit"

(***************************************************************************)
(* Claim about added lines in changed_same_line, under SpecSameLine.       *)
(***************************************************************************)
\* The diff of the candidate against its parent has only lines without an
\* old line number and lines of the skipped kinds.
OnlyAddedOrSkipped(lines) ==
    \A i \in 1..Len(lines) :
        lines[i].old_lineno = None \/ lines[i].origin \in SkippedOrigins

\* C30: changed_same_line finds an overlap only through a line that has an
\* old line number: on a diff that consists solely of added lines and of
\* lines of the skipped kinds it returns false, whatever the blame between
\* O and M says about the files, so the line filter drops the candidate.
C30_AddedLinesNeverOverlap ==
    /\ (pc = "done" /\ call.fn = "changed_same_line" /\ fault = "none"
           /\ OnlyAddedOrSkipped(diff))
       => result = Ok(FALSE)
    /\ (pc = "done" /\ call.fn = "changed_same_line" /\ result = Ok(TRUE))
       => \E i \in 1..Len(diff) :
             diff[i].old_lineno # None /\ diff[i].origin \notin SkippedOrigins

\* C30 happens: an added line and a context line, each in a file whose blame
\* has a hunk of a commit after O at that place, and the result is false.
C30_Witness ==
    /\ pc = "done"
    /\ call.fn = "changed_same_line"
    /\ result = Ok(FALSE)
    /\ Len(diff) = 2
    /\ diff[1].origin = "Addition" /\ diff[1].path # None /\ diff[1].blame = "Changed"
    /\ diff[2].origin = "Context" /\ diff[2].blame = "Changed"

(***************************************************************************)
(* The three filters of the CSV functions as functions of a candidate      *)
(* vector, applied in any order and any number of times. The repository    *)
(* answers every lookup and every diff.                                    *)
(***************************************************************************)
FilterNames == {"message", "distance", "overlap"}

\* A file filter that keeps the first overlapping candidate only.
FirstOverlapOnly(candidates) ==
    LET hits == SelectSeq(candidates,
                    LAMBDA child :
                        /\ HasOneParent(child)
                        /\ SharesAFile(MergeChanges(o_to_a, o_to_b),
                                       ChangedFilenames(tree[parents[child][1]],
                                                        tree[child])))
    IN  IF hits = <<>> THEN <<>> ELSE <<hits[1]>>

\* .filter(|child| within_n_generations(repo, &m_commit_oid, child, fix_distance))
DistanceFilter(candidates, m, n) ==
    SelectSeq(candidates, LAMBDA child : within_n_generations(m, child, n).value)

\* The second .filter(..) of print_bug_fix_csv.
FileOverlapFilter(candidates) ==
    SelectSeq(candidates,
              LAMBDA child :
                  /\ HasOneParent(child)
                  /\ SharesAFile(MergeChanges(o_to_a, o_to_b),
                                 ChangedFilenames(tree[parents[child][1]], tree[child])))

\* The second .filter(..) of print_bug_fix_csv_overlapping_lines; diff[child]
\* is the diff of the candidate against its parent.
LineOverlapFilter(candidates) ==
    SelectSeq(candidates,
              LAMBDA child : HasOneParent(child) /\ ScanLines(diff[child], FALSE))

ApplyFilter(name, candidates) ==
    IF name = "message" THEN MessageFilter(candidates, lookups)
    ELSE IF name = "distance"
    THEN DistanceFilter(candidates, call.arg.m, call.arg.fix_distance)
    ELSE IF call.arg.variant = "print_bug_fix_csv"
    THEN FileOverlapFilter(candidates)
    ELSE LineOverlapFilter(candidates)

\* One more filter over the vector; checked is the set of filters applied.
FilterStep ==
    /\ pc = "start"
    /\ call.fn = "filters"
    /\ \E name \in FilterNames :
         /\ descendants' = ApplyFilter(name, descendants)
         /\ checked' = checked \cup {name}
    /\ UNCHANGED <<parents, head, time, call, pc, ancestor, walked, got, lookups,
                   merges, log, fault, result, tree, o_to_a, o_to_b, kept, cursor,
                   stdout, diff, changed_same_line, caller, filesVars>>

\* The trees tried: the oldest commit has the first blob everywhere, and
\* only A.java ever changes.
FilterTrees ==
    {t \in [Commits -> TreeValues] :
        /\ t[1] = [p \in Paths |-> "v1"]
        /\ \A c \in Commits : t[c]["b.txt"] = "v1"}

\* The diffs of a candidate tried: no line, or a deleted line that the blame
\* between O and M gives to a commit after O.
LineSamples ==
    {<<>>, <<[origin |-> "Deletion", path |-> Some("A.java"),
              old_lineno |-> Some(1), blame |-> "Changed"]>>}

\* M is the oldest commit, O, A and B the first three; every commit is found.
InitFilters ==
    /\ parents \in MainlineHistories
    /\ head = MaxCommits
    /\ time = [c \in Commits |-> 0]
    /\ call \in [fn : {"filters"},
                 arg : [candidates : SeqsNoDup(Commits \ {1}, MaxCommits - 1),
                        m : {1}, fix_distance : {1, MaxCommits},
                        variant : CsvFunctions]]
    /\ pc = "start"
    /\ ancestor = MissingOid
    /\ descendants = call.arg.candidates
    /\ walked = {}
    /\ got = NoResult
    /\ lookups \in [Commits -> {Ok(s) : s \in RepoSummaries}]
    /\ lookups[1] = Ok(<<"a", "d", "d">>)
    /\ merges = <<>>
    /\ log = <<>>
    /\ fault = "none"
    /\ result = NoResult
    /\ IF call.arg.variant = "print_bug_fix_csv"
       THEN /\ tree \in FilterTrees
            /\ diff = [c \in Commits |-> <<>>]
       ELSE /\ tree = [c \in Commits |-> [p \in Paths |-> "v1"]]
            /\ diff \in [Commits -> LineSamples]
            /\ diff[1] = <<>>
    /\ o_to_a = ChangedFilenames(tree[1], tree[2])
    /\ o_to_b = ChangedFilenames(tree[1], tree[3])
    /\ kept = <<>>
    /\ cursor = 0
    /\ stdout = <<>>
    /\ changed_same_line = FALSE
    /\ caller = NoCaller
    /\ checked = {}
    /\ filesystem = NoFiles
    /\ worklist = <<>>
    /\ yielded = <<>>

NextFilters == FilterStep

SpecFilters == InitFilters /\ [][NextFilters]_vars

\* The pipeline of the CSV functions: message, then distance, then overlap.
StandardPipeline(candidates) ==
    ApplyFilter("overlap", ApplyFilter("distance", ApplyFilter("message", candidates)))

\* What each filter decides for one candidate alone.
Decides(name, child) == ApplyFilter(name, <<child>>) = <<child>>

====
